---- MODULE Spec2Model ----
(***************************************************************************)
(* A model of the HTTP server of http-server.js (class HTTP): the          *)
(* per-connection 'data' handler of start(), parseRequest, createResponse, *)
(* handleGET and handlePOST.                                               *)
(*                                                                         *)
(* Representation of JavaScript strings.  A Text is a sequence of tokens.  *)
(* A token is either one character (a string of length 1, or the name of a *)
(* non-ASCII character such as "U+00E9") or a literal run: a piece of a    *)
(* template literal of the source, kept whole.  Literal runs never hold a  *)
(* carriage return, and the text the server reads (the request) is always  *)
(* a sequence of single characters, so that every search the code makes    *)
(* (split, indexOf, includes) is made character by character.              *)
(* Bytes on the wire are tokens too: an ASCII byte is its character, the   *)
(* two bytes of U+00E9 are "xC3" and "xA9".                                *)
(***************************************************************************)
EXTENDS Integers, Sequences, FiniteSets, TLC

VARIABLES
    stream,   \* per connection: the bytes the peer has still to send
    received, \* per connection: the bytes the peer has sent, chunk after chunk
    data,     \* per connection: the closure variable `data` of start()
    calls,    \* per connection: the socket.write / socket.end calls made, in order
    sent,     \* per connection: the responses the socket accepted for transmission
    sock,     \* per connection: "open", "ended" (end() was called) or "closed"
    log,      \* per connection: one record per run of the try block
    call,     \* a direct call of a method of the class: its name and arguments
    result    \* what that call returned, once made

vars == <<stream, received, data, calls, sent, sock, log, call, result>>

----------------------------------------------------------------------------
(* Characters and strings                                                  *)

CR == "\r"
LF == "\n"
CRLF == <<CR, LF>>
CRLFCRLF == <<CR, LF, CR, LF>>

\* The value `undefined`, where the code can meet it in place of a string.
Undefined == <<"<undefined>">>

\* The characters of codes 0..31, in code order, by name where a TLA+ string
\* cannot hold them.
Controls ==
    <<
      "U+0000", "U+0001", "U+0002", "U+0003", "U+0004", "U+0005", "U+0006", "U+0007",
      "U+0008", "\t", LF, "U+000B", "\f", CR, "U+000E", "U+000F",
      "U+0010", "U+0011", "U+0012", "U+0013", "U+0014", "U+0015", "U+0016", "U+0017",
      "U+0018", "U+0019", "U+001A", "U+001B", "U+001C", "U+001D", "U+001E", "U+001F">>

Delete == "U+007F"
Grave == "U+0060"

\* The ASCII characters that the model writes by name.
NamedAscii == {Delete, Grave} \cup {Controls[i] : i \in {1, 2, 3, 4, 5, 6, 7, 8, 9, 12}}
                              \cup {Controls[i] : i \in 15..32}

\* Characters outside ASCII, by code point, with the length of their UTF-8
\* encoding; every other token is ASCII text, one byte a character.
EAcute == "U+00E9"
CapitalEAcute == "U+00C9"
Replacement == "U+FFFD"
Utf8Width(tok) ==
    CASE tok \in {EAcute, CapitalEAcute} -> 2
      [] tok = Replacement -> 3
      [] tok \in NamedAscii -> 1
      [] OTHER -> Len(tok)

\* String.prototype.length of one token (UTF-16 code units).
Utf16Width(tok) ==
    IF tok \in {EAcute, CapitalEAcute, Replacement} \cup NamedAscii THEN 1
    ELSE Len(tok)

\* The widths of the tokens lo..hi of a text, added up.
RECURSIVE SumWidths(_, _, _, _)
SumWidths(text, lo, hi, byBytes) ==
    IF lo > hi THEN 0
    ELSE IF lo = hi
    THEN (IF byBytes THEN Utf8Width(text[lo]) ELSE Utf16Width(text[lo]))
    ELSE SumWidths(text, lo, (lo + hi) \div 2, byBytes)
         + SumWidths(text, (lo + hi) \div 2 + 1, hi, byBytes)

\* text.length
StrLength(text) == SumWidths(text, 1, Len(text), FALSE)

\* Buffer.byteLength(text): the length of the UTF-8 encoding.
ByteLength(text) == SumWidths(text, 1, Len(text), TRUE)

\* Template interpolation `${v}` of a value that may be undefined.
Str(v) == IF v = Undefined THEN <<"undefined">> ELSE v

Digits == <<"0", "1", "2", "3", "4", "5", "6", "7", "8", "9">>
IsDigit(ch) == \E i \in 1..10 : Digits[i] = ch
DigitValue(ch) == (CHOOSE i \in 1..10 : Digits[i] = ch) - 1

\* Template interpolation `${n}` of a natural number: its decimal digits.
RECURSIVE NumStr(_)
NumStr(n) ==
    IF n < 10 THEN <<Digits[n + 1]>>
    ELSE NumStr(n \div 10) \o <<Digits[(n % 10) + 1]>>

\* text.indexOf(pat, from), 1-based; 0 when pat does not occur.
IndexOf(text, pat, from) ==
    LET hits == {i \in from..(Len(text) - Len(pat) + 1) :
                    SubSeq(text, i, i + Len(pat) - 1) = pat}
    IN  IF hits = {} THEN 0 ELSE CHOOSE i \in hits : \A j \in hits : i <= j

\* text.includes(pat)
Includes(text, pat) == IndexOf(text, pat, 1) # 0

\* text.split(sep) for a non-empty separator: always at least one piece.
RECURSIVE Split(_, _)
Split(text, sep) ==
    LET i == IndexOf(text, sep, 1)
    IN  IF i = 0 THEN <<text>>
        ELSE <<SubSeq(text, 1, i - 1)>>
             \o Split(SubSeq(text, i + Len(sep), Len(text)), sep)

\* pieces.join(sep)
RECURSIVE Join(_, _)
Join(pieces, sep) ==
    IF Len(pieces) = 0 THEN <<>>
    ELSE IF Len(pieces) = 1 THEN pieces[1]
    ELSE pieces[1] \o sep \o Join(Tail(pieces), sep)

UpperCase ==
    <<"A", "B", "C", "D", "E", "F", "G", "H", "I", "J", "K", "L", "M", "N",
      "O", "P", "Q", "R", "S", "T", "U", "V", "W", "X", "Y", "Z", CapitalEAcute>>
LowerCase ==
    <<"a", "b", "c", "d", "e", "f", "g", "h", "i", "j", "k", "l", "m", "n",
      "o", "p", "q", "r", "s", "t", "u", "v", "w", "x", "y", "z", EAcute>>

LowerChar(ch) ==
    IF \E i \in 1..Len(UpperCase) : UpperCase[i] = ch
    THEN LowerCase[CHOOSE i \in 1..Len(UpperCase) : UpperCase[i] = ch]
    ELSE ch

\* text.toLowerCase()
ToLowerCase(text) == [i \in 1..Len(text) |-> LowerChar(text[i])]

WhiteSpace == {" ", "\t", LF, CR, "\f"}

\* text.trim(): white space removed at both ends.
Trim(text) ==
    LET keep == {i \in 1..Len(text) : text[i] \notin WhiteSpace}
    IN  IF keep = {} THEN <<>>
        ELSE SubSeq(text, CHOOSE i \in keep : \A j \in keep : i <= j,
                          CHOOSE i \in keep : \A j \in keep : i >= j)

----------------------------------------------------------------------------
(* JavaScript objects with string keys: a sequence of [key, value] in the  *)
(* order Object.keys / Object.entries enumerates them: the keys that are   *)
(* array indices first, in ascending numeric order, then the other keys in *)
(* the order they were created.                                            *)

RECURSIVE NumberOf(_)
NumberOf(key) ==
    IF Len(key) = 0 THEN 0
    ELSE 10 * NumberOf(SubSeq(key, 1, Len(key) - 1)) + DigitValue(key[Len(key)])

\* A canonical numeric string below 2^32 - 1 (the model keeps to 9 digits).
IsArrayIndex(key) ==
    /\ Len(key) \in 1..9
    /\ \A i \in 1..Len(key) : IsDigit(key[i])
    /\ Len(key) > 1 => key[1] # "0"

HasKey(obj, key) == \E i \in 1..Len(obj) : obj[i].key = key

\* obj[key], or Undefined
Get(obj, key) ==
    IF HasKey(obj, key)
    THEN obj[CHOOSE i \in 1..Len(obj) : obj[i].key = key].value
    ELSE Undefined

\* Where a new key is created in the enumeration order.
InsertAt(obj, key) ==
    IF IsArrayIndex(key)
    THEN 1 + Cardinality({i \in 1..Len(obj) :
                 IsArrayIndex(obj[i].key) /\ NumberOf(obj[i].key) < NumberOf(key)})
    ELSE Len(obj) + 1

\* CreateDataProperty: a key of an object literal or of a spread.
Define(obj, key, value) ==
    IF HasKey(obj, key)
    THEN [i \in 1..Len(obj) |->
            IF obj[i].key = key THEN [key |-> key, value |-> value] ELSE obj[i]]
    ELSE LET at == InsertAt(obj, key)
         IN  SubSeq(obj, 1, at - 1) \o <<[key |-> key, value |-> value]>>
             \o SubSeq(obj, at, Len(obj))

ProtoKey == <<"_", "_", "p", "r", "o", "t", "o", "_", "_">>

\* obj[key] = value, value a string: the key __proto__ reaches the setter of
\* Object.prototype, which ignores a string and creates no property.
Assign(obj, key, value) ==
    IF key = ProtoKey THEN obj ELSE Define(obj, key, value)

\* { ...base, ...extra }
RECURSIVE Spread(_, _)
Spread(base, extra) ==
    IF Len(extra) = 0 THEN base
    ELSE Spread(Define(base, extra[1].key, extra[1].value), Tail(extra))

Keys(obj) == [i \in 1..Len(obj) |-> obj[i].key]

----------------------------------------------------------------------------
(* parseRequest                                                            *)

\* A header loop that keeps the case of the names.
RECURSIVE ScanHeadersKeepCase(_, _, _)
ScanHeadersKeepCase(lines, i, headers) ==
    IF ~(i < Len(lines)) THEN [headers |-> headers, bodyStartIndex |-> -1]
    ELSE LET line == lines[i + 1]
             colonIndex == IndexOf(line, <<":">>, 1)
         IN  IF line = <<>>
             THEN [headers |-> headers, bodyStartIndex |-> i + 1]
             ELSE IF colonIndex # 0
             THEN ScanHeadersKeepCase(lines, i + 1,
                      Assign(headers,
                             SubSeq(line, 1, colonIndex - 1),
                             Trim(SubSeq(line, colonIndex + 1, Len(line)))))
             ELSE ScanHeadersKeepCase(lines, i + 1, headers)

\* The for loop of parseRequest from index i (0-based, as in the source).
RECURSIVE ScanHeaders(_, _, _)
ScanHeaders(lines, i, headers) ==
    IF ~(i < Len(lines)) THEN [headers |-> headers, bodyStartIndex |-> -1]
    ELSE LET line == lines[i + 1]
             colonIndex == IndexOf(line, <<":">>, 1)
         IN  IF line = <<>>
             THEN [headers |-> headers, bodyStartIndex |-> i + 1]
             ELSE IF colonIndex # 0
             THEN ScanHeaders(lines, i + 1,
                      Assign(headers,
                             ToLowerCase(SubSeq(line, 1, colonIndex - 1)),
                             Trim(SubSeq(line, colonIndex + 1, Len(line)))))
             ELSE ScanHeaders(lines, i + 1, headers)

\* const [method, path, version] = requestLine.split(' ')
Nth(parts, n) == IF n <= Len(parts) THEN parts[n] ELSE Undefined

\* A body that is the one line after the empty line, the rest dropped.
bodyOfOneLine(lines, bodyStartIndex) ==
    IF bodyStartIndex # -1 /\ bodyStartIndex < Len(lines)
    THEN lines[bodyStartIndex + 1]
    ELSE <<>>

\* if (bodyStartIndex !== -1 && bodyStartIndex < lines.length) ...
bodyOf(lines, bodyStartIndex) ==
    IF bodyStartIndex # -1 /\ bodyStartIndex < Len(lines)
    THEN Join(SubSeq(lines, bodyStartIndex + 1, Len(lines)), CRLF)
    ELSE <<>>

\* return { method, path, version, headers, body }
requestOf(lines, parts, scan) ==
    [method |-> Nth(parts, 1), path |-> Nth(parts, 2), version |-> Nth(parts, 3),
     headers |-> scan.headers, body |-> bodyOf(lines, scan.bodyStartIndex)]

\* The request line lines[0] and the header lines that follow it.
parseLines(lines) ==
    requestOf(lines, Split(lines[1], <<" ">>), ScanHeaders(lines, 1, <<>>))

parseRequest(text) == parseLines(Split(text, CRLF))

----------------------------------------------------------------------------
(* createResponse                                                          *)

statusMessages(statusCode) ==
    CASE statusCode = 200 -> <<"OK">>
      [] statusCode = 201 -> <<"Created">>
      [] statusCode = 400 -> <<"Bad Request">>
      [] statusCode = 404 -> <<"Not Found">>
      [] statusCode = 500 -> <<"Internal Server Error">>
      [] OTHER -> Undefined

\* statusMessages[statusCode] || 'Unknown'
statusMessage(statusCode) ==
    IF statusMessages(statusCode) = Undefined THEN <<"Unknown">>
    ELSE statusMessages(statusCode)

ContentType ==
    <<"C", "o", "n", "t", "e", "n", "t", "-", "T", "y", "p", "e">>
ContentLength ==
    <<"C", "o", "n", "t", "e", "n", "t", "-", "L", "e", "n", "g", "t", "h">>
Connection == <<"C", "o", "n", "n", "e", "c", "t", "i", "o", "n">>
TextPlain == <<"t", "e", "x", "t", "/", "p", "l", "a", "i", "n">>

\* Defaults spread over the caller's headers: { ...headers, ...defaults }.
defaultsOverHeaders(headers, body) ==
    Spread(headers,
           <<[key |-> ContentType, value |-> TextPlain],
             [key |-> ContentLength, value |-> NumStr(ByteLength(body))],
             [key |-> Connection, value |-> <<"c", "l", "o", "s", "e">>]>>)

\* Defaults whose Content-Length counts characters (body.length).
defaultHeadersByCharacters(headers, body) ==
    Spread(<<[key |-> ContentType, value |-> TextPlain],
             [key |-> ContentLength, value |-> NumStr(StrLength(body))],
             [key |-> Connection, value |-> <<"c", "l", "o", "s", "e">>]>>,
           headers)

defaultHeaders(headers, body) ==
    Spread(<<[key |-> ContentType, value |-> TextPlain],
             [key |-> ContentLength, value |-> NumStr(ByteLength(body))],
             [key |-> Connection, value |-> <<"c", "l", "o", "s", "e">>]>>,
           headers)

\* Header lines with a colon and no space after it.
RECURSIVE HeaderLinesNoSpace(_)
HeaderLinesNoSpace(entries) ==
    IF Len(entries) = 0 THEN <<>>
    ELSE entries[1].key \o <<":">> \o entries[1].value \o CRLF
         \o HeaderLinesNoSpace(Tail(entries))

\* The for loop over Object.entries(defaultHeaders).
RECURSIVE HeaderLines(_)
HeaderLines(entries) ==
    IF Len(entries) = 0 THEN <<>>
    ELSE entries[1].key \o <<": ">> \o entries[1].value \o CRLF
         \o HeaderLines(Tail(entries))

createResponse(statusCode, headers, body) ==
    <<"HTTP/1.1 ">> \o NumStr(statusCode) \o <<" ">> \o statusMessage(statusCode)
    \o CRLF
    \o HeaderLines(defaultHeaders(headers, body))
    \o CRLF
    \o body

----------------------------------------------------------------------------
(* decodeURIComponent                                                      *)

\* The characters of codes 32..126, in code order.
Printable ==
    <<
      " ", "!", "\"", "#", "$", "%", "&", "'", "(", ")", "*", "+",
      ",", "-", ".", "/", "0", "1", "2", "3", "4", "5", "6", "7",
      "8", "9", ":", ";", "<", "=", ">", "?", "@", "A", "B", "C",
      "D", "E", "F", "G", "H", "I", "J", "K", "L", "M", "N", "O",
      "P", "Q", "R", "S", "T", "U", "V", "W", "X", "Y", "Z", "[",
      "\\", "]", "^", "_", Grave, "a", "b", "c", "d", "e", "f", "g",
      "h", "i", "j", "k", "l", "m", "n", "o", "p", "q", "r", "s",
      "t", "u", "v", "w", "x", "y", "z", "{", "|", "}", "~">>

\* The ASCII character of a code 0..127.
AsciiChar(code) ==
    IF code < 32 THEN Controls[code + 1]
    ELSE IF code = 127 THEN Delete
    ELSE Printable[code - 31]

HexDigits ==
    <<"0", "1", "2", "3", "4", "5", "6", "7", "8", "9", "A", "B", "C", "D", "E", "F">>

IsHex(ch) == \E i \in 1..16 : HexDigits[i] = ch \/ (i <= 6 /\ LowerCase[i] = ch)

HexValue(ch) ==
    IF IsDigit(ch) THEN DigitValue(ch)
    ELSE 9 + (CHOOSE i \in 1..6 : UpperCase[i] = ch \/ LowerCase[i] = ch)

\* The byte an escape %XX at position i stands for, or -1 when the text
\* holds no escape there.
EscapeAt(text, i) ==
    IF /\ i + 2 <= Len(text)
       /\ text[i] = "%"
       /\ IsHex(text[i + 1])
       /\ IsHex(text[i + 2])
    THEN 16 * HexValue(text[i + 1]) + HexValue(text[i + 2])
    ELSE -1

\* The escapes of the characters outside ASCII that the model knows:
\* %C3%A9, %C3%89 and %EF%BF%BD.  Every other escape of a byte above 127
\* (a continuation byte on its own, a cut sequence, an overlong form) is
\* the URIError of the source; well-formed sequences of other characters
\* are outside the model's alphabet and are not among its inputs.
MultiByteAt(text, i) ==
    LET b1 == EscapeAt(text, i)
        b2 == EscapeAt(text, i + 3)
        b3 == EscapeAt(text, i + 6)
    IN  CASE b1 = 195 /\ b2 = 169 -> [ok |-> TRUE, ch |-> EAcute, next |-> i + 6]
          [] b1 = 195 /\ b2 = 137 -> [ok |-> TRUE, ch |-> CapitalEAcute, next |-> i + 6]
          [] b1 = 239 /\ b2 = 191 /\ b3 = 189 ->
                 [ok |-> TRUE, ch |-> Replacement, next |-> i + 9]
          [] OTHER -> [ok |-> FALSE, ch |-> Replacement, next |-> i]

\* [ok |-> FALSE] stands for the URIError that decodeURIComponent throws.
RECURSIVE DecodeFrom(_, _, _)
DecodeFrom(text, i, acc) ==
    IF i > Len(text) THEN [ok |-> TRUE, value |-> acc]
    ELSE IF text[i] # "%" THEN DecodeFrom(text, i + 1, Append(acc, text[i]))
    ELSE LET b == EscapeAt(text, i)
         IN  IF b = -1 THEN [ok |-> FALSE, value |-> <<>>]
             ELSE IF b < 128 THEN DecodeFrom(text, i + 3, Append(acc, AsciiChar(b)))
             ELSE LET m == MultiByteAt(text, i)
                  IN  IF m.ok THEN DecodeFrom(text, m.next, Append(acc, m.ch))
                      ELSE [ok |-> FALSE, value |-> <<>>]

\* A decoding that leaves what it cannot decode as it is.
decodeURIComponentLenient(text) == [ok |-> TRUE, value |-> text]

decodeURIComponent(text) == DecodeFrom(text, 1, <<>>)

----------------------------------------------------------------------------
(* JSON.parse and JSON.stringify(value, null, 2)                           *)
(*                                                                         *)
(* A JSON value is [type, text, items]: text holds the characters of a     *)
(* string and the canonical digits of a number, items the elements of an   *)
(* array or the [key, value] entries of an object.  Numbers are integers   *)
(* of at most 15 digits and strings hold no \u escape: fractions,          *)
(* exponents and \u escapes are outside the model's alphabet and are not   *)
(* among its inputs.                                                       *)

JValue(type, text, items) == [type |-> type, text |-> text, items |-> items]
JNull == JValue("null", <<"n", "u", "l", "l">>, <<>>)
JTrue == JValue("boolean", <<"t", "r", "u", "e">>, <<>>)
JFalse == JValue("boolean", <<"f", "a", "l", "s", "e">>, <<>>)
JString(text) == JValue("string", text, <<>>)
JObject(entries) == JValue("object", <<>>, entries)

\* An object whose values are strings, as a JSON value.
StringValues(obj) ==
    [i \in 1..Len(obj) |-> [key |-> obj[i].key, value |-> JString(obj[i].value)]]

\* [ok |-> FALSE] stands for the SyntaxError that JSON.parse throws.
JFail == [ok |-> FALSE, value |-> JNull, next |-> 0]
JOk(value, next) == [ok |-> TRUE, value |-> value, next |-> next]

JsonWhiteSpace == {" ", "\t", LF, CR}

At(text, i) == IF i \in 1..Len(text) THEN text[i] ELSE "<end>"

SkipWs(text, i) ==
    LET stops == {j \in i..Len(text) : text[j] \notin JsonWhiteSpace}
    IN  IF stops = {} THEN Len(text) + 1
        ELSE CHOOSE j \in stops : \A k \in stops : j <= k

StartsAt(text, i, word) ==
    /\ i >= 1
    /\ i + Len(word) - 1 <= Len(text)
    /\ SubSeq(text, i, i + Len(word) - 1) = word

\* The characters of a string after its opening quote.
RECURSIVE ParseString(_, _, _)
ParseString(text, i, acc) ==
    LET ch == At(text, i)
        esc == At(text, i + 1)
    IN  IF i > Len(text) THEN JFail
        ELSE IF ch = "\"" THEN JOk(JString(acc), i + 1)
        ELSE IF ch = "\\"
        THEN CASE esc \in {"\"", "\\", "/"} -> ParseString(text, i + 2, Append(acc, esc))
               [] esc = "n" -> ParseString(text, i + 2, Append(acc, LF))
               [] esc = "r" -> ParseString(text, i + 2, Append(acc, CR))
               [] esc = "t" -> ParseString(text, i + 2, Append(acc, "\t"))
               [] esc = "f" -> ParseString(text, i + 2, Append(acc, "\f"))
               [] esc = "b" -> ParseString(text, i + 2, Append(acc, Controls[9]))
               [] OTHER -> JFail
        ELSE IF \E k \in 1..32 : Controls[k] = ch THEN JFail
        ELSE ParseString(text, i + 1, Append(acc, ch))

\* -? ( 0 | [1-9][0-9]* ); the number -0 is 0.
ParseNumber(text, i) ==
    LET first == IF At(text, i) = "-" THEN i + 1 ELSE i
        stops == {j \in first..Len(text) : ~IsDigit(text[j])}
        end == IF stops = {} THEN Len(text) + 1
               ELSE CHOOSE j \in stops : \A k \in stops : j <= k
        digits == SubSeq(text, first, end - 1)
    IN  IF \/ Len(digits) = 0
           \/ Len(digits) > 15
           \/ (Len(digits) > 1 /\ digits[1] = "0")
           \/ At(text, end) \in {".", "e", "E"}
        THEN JFail
        ELSE JOk(JValue("number",
                        IF first # i /\ digits # <<"0">> THEN <<"-">> \o digits
                        ELSE digits,
                        <<>>),
                 end)

RECURSIVE ParseValue(_, _)
RECURSIVE ParseElements(_, _, _)
RECURSIVE ParseMembers(_, _, _)

ParseValue(text, from) ==
    LET i == SkipWs(text, from)
        ch == At(text, i)
    IN  CASE StartsAt(text, i, JNull.text) -> JOk(JNull, i + 4)
          [] StartsAt(text, i, JTrue.text) -> JOk(JTrue, i + 4)
          [] StartsAt(text, i, JFalse.text) -> JOk(JFalse, i + 5)
          [] ch = "\"" -> ParseString(text, i + 1, <<>>)
          [] ch = "-" \/ IsDigit(ch) -> ParseNumber(text, i)
          [] ch = "[" ->
                 IF At(text, SkipWs(text, i + 1)) = "]"
                 THEN JOk(JValue("array", <<>>, <<>>), SkipWs(text, i + 1) + 1)
                 ELSE ParseElements(text, i + 1, <<>>)
          [] ch = "{" ->
                 IF At(text, SkipWs(text, i + 1)) = "}"
                 THEN JOk(JObject(<<>>), SkipWs(text, i + 1) + 1)
                 ELSE ParseMembers(text, i + 1, <<>>)
          [] OTHER -> JFail

\* After an element: a comma and the next element, or the closing bracket.
elementsAfter(text, j, acc) ==
    IF At(text, j) = "," THEN ParseElements(text, j + 1, acc)
    ELSE IF At(text, j) = "]" THEN JOk(JValue("array", <<>>, acc), j + 1)
    ELSE JFail

elementParsed(text, v, acc) ==
    IF ~v.ok THEN JFail
    ELSE elementsAfter(text, SkipWs(text, v.next), Append(acc, v.value))

ParseElements(text, i, acc) == elementParsed(text, ParseValue(text, i), acc)

\* After a member: a comma and the next member, or the closing brace.
membersAfter(text, j, entries) ==
    IF At(text, j) = "," THEN ParseMembers(text, j + 1, entries)
    ELSE IF At(text, j) = "}" THEN JOk(JObject(entries), j + 1)
    ELSE JFail

memberParsed(text, key, v, acc) ==
    IF ~v.ok THEN JFail
    ELSE membersAfter(text, SkipWs(text, v.next), Define(acc, key, v.value))

memberColon(text, k, c, acc) ==
    IF k.ok /\ At(text, c) = ":"
    THEN memberParsed(text, k.value.text, ParseValue(text, c + 1), acc)
    ELSE JFail

memberKey(text, k, acc) == memberColon(text, k, SkipWs(text, k.next), acc)

memberAt(text, q, acc) ==
    IF At(text, q) = "\""
    THEN memberKey(text, ParseString(text, q + 1, <<>>), acc)
    ELSE JFail

ParseMembers(text, i, acc) == memberAt(text, SkipWs(text, i), acc)

\* JSON.parse(text): one value, white space around it, and nothing else.
wholeText(text, v) ==
    IF v.ok /\ SkipWs(text, v.next) = Len(text) + 1 THEN v ELSE JFail

JSONParse(text) == wholeText(text, ParseValue(text, 1))

LowerHex ==
    <<"0", "1", "2", "3", "4", "5", "6", "7", "8", "9", "a", "b", "c", "d", "e", "f">>

\* One character of a string, as JSON.stringify quotes it.
QuoteChar(ch) ==
    CASE ch = "\"" -> <<"\\", "\"">>
      [] ch = "\\" -> <<"\\", "\\">>
      [] ch = LF -> <<"\\", "n">>
      [] ch = CR -> <<"\\", "r">>
      [] ch = "\t" -> <<"\\", "t">>
      [] ch = "\f" -> <<"\\", "f">>
      [] ch = Controls[9] -> <<"\\", "b">>
      [] \E k \in 1..32 : Controls[k] = ch ->
             LET code == (CHOOSE k \in 1..32 : Controls[k] = ch) - 1
             IN  <<"\\", "u", "0", "0", LowerHex[(code \div 16) + 1],
                   LowerHex[(code % 16) + 1]>>
      [] OTHER -> <<ch>>

RECURSIVE QuoteChars(_)
QuoteChars(text) ==
    IF Len(text) = 0 THEN <<>> ELSE QuoteChar(text[1]) \o QuoteChars(Tail(text))

Quote(text) == <<"\"">> \o QuoteChars(text) \o <<"\"">>

Indent(level) == [i \in 1..(2 * level) |-> " "]

RECURSIVE Stringify(_, _)
RECURSIVE StringifyItems(_, _, _)

\* The elements of an array or the entries of an object, one a line.
StringifyItems(value, k, level) ==
    LET item == value.items[k]
        this == Indent(level)
                \o (IF value.type = "object"
                    THEN Quote(item.key) \o <<":", " ">> \o Stringify(item.value, level)
                    ELSE Stringify(item, level))
    IN  IF k = Len(value.items) THEN this
        ELSE this \o <<",", LF>> \o StringifyItems(value, k + 1, level)

Stringify(value, level) ==
    CASE value.type = "string" -> Quote(value.text)
      [] value.type \in {"array", "object"} ->
             LET open == IF value.type = "array" THEN "[" ELSE "{"
                 close == IF value.type = "array" THEN "]" ELSE "}"
             IN  IF Len(value.items) = 0 THEN <<open, close>>
                 ELSE <<open, LF>> \o StringifyItems(value, 1, level + 1)
                      \o <<LF>> \o Indent(level) \o <<close>>
      [] OTHER -> value.text

\* JSON.stringify(value, null, 2)
JSONStringify(value) == Stringify(value, 0)

\* Object.keys(value).length; -1 stands for the TypeError of a null value.
KeysLength(value) ==
    CASE value.type = "null" -> -1
      [] value.type = "string" -> StrLength(value.text)
      [] value.type \in {"array", "object"} -> Len(value.items)
      [] OTHER -> 0

----------------------------------------------------------------------------
(* What the handlers read from the process: the clock and the uptime.      *)

port == 4000

\* new Date().toISOString(), process.uptime().toFixed(2) and Date.now() at
\* the time of a call.
Clock ==
    {[iso |-> <<"2", "0", "2", "6", "-", "1", "1", "-", "0", "6", "T", "1", "0", ":", "0", "0", ":", "0", "0", ".", "0", "0", "0", "Z">>,
      uptime |-> <<"1", ".", "5", "0">>,
      now |-> <<"1", "7", "9", "3", "9", "5", "9", "2", "0", "0", "0", "0", "0">>],
     [iso |-> <<"2", "0", "2", "6", "-", "1", "1", "-", "0", "6", "T", "1", "0", ":", "0", "0", ":", "0", "9", ".", "5", "0", "0", "Z">>,
      uptime |-> <<"1", "1", ".", "0", "0">>,
      now |-> <<"1", "7", "9", "3", "9", "5", "9", "2", "0", "9", "5", "0", "0">>]}

----------------------------------------------------------------------------
(* handleGET and handlePOST                                                *)

\* v || fallback, for a string v that may be undefined.
OrElse(v, fallback) == IF v = Undefined \/ v = <<>> THEN fallback ELSE v

NotSpecified == <<"Not specified">>
Host == <<"h", "o", "s", "t">>
UserAgent == <<"u", "s", "e", "r", "-", "a", "g", "e", "n", "t">>
Accept == <<"a", "c", "c", "e", "p", "t">>
ContentTypeKey == <<"c", "o", "n", "t", "e", "n", "t", "-", "t", "y", "p", "e">>
ApplicationJson ==
    <<"a", "p", "p", "l", "i", "c", "a", "t", "i", "o", "n", "/", "j", "s", "o", "n">>
FormUrlEncoded ==
    <<"a", "p", "p", "l", "i", "c", "a", "t", "i", "o", "n", "/", "x", 
     "-", "w", "w", "w", "-", "f", "o", "r", "m", "-", "u", "r", "l", "e", "n", "c", "o", "d", "e", "d">>

\* The result of a handler: the response it returns, or raised when an
\* exception leaves it.
Returned(response) == [raised |-> FALSE, response |-> response]
Raised == [raised |-> TRUE, response |-> <<>>]

\* The forEach over the '&'-separated params, from params[i] on:
\*     const [key, value] = param.split('=');
\*     if (key) obj[decodeURIComponent(key)] = decodeURIComponent(value || '');
\* [ok |-> FALSE] when decodeURIComponent throws.
RECURSIVE DecodeParams(_, _, _)

\* obj[k] = v for the decoded key and value of params[i].
setParam(params, i, obj, k, v) ==
    IF ~k.ok \/ ~v.ok THEN [ok |-> FALSE, value |-> obj]
    ELSE DecodeParams(params, i + 1, Assign(obj, k.value, v.value))

\* const [key, value] = pair; if (key) ...
decodePair(params, i, obj, pair) ==
    IF pair[1] = <<>> THEN DecodeParams(params, i + 1, obj)
    ELSE setParam(params, i, obj, decodeURIComponent(pair[1]),
                  decodeURIComponent(OrElse(Nth(pair, 2), <<>>)))

DecodeParams(params, i, obj) ==
    IF i > Len(params) THEN [ok |-> TRUE, value |-> obj]
    ELSE decodePair(params, i, obj, Split(params[i], <<"=">>))

\* Object.entries(queryParams).map(([k, v]) => `${k}=${v}`)
PairTexts(queryParams) ==
    [i \in 1..Len(queryParams) |->
        queryParams[i].key \o <<"=">> \o queryParams[i].value]

rootBody(request, path, queryParams) ==
    <<"GET Request Received Successfully!\n",
      "\n",
      "                    RFC 7231 Compliance:\n",
      "                    - Method: GET (Safe and Idempotent)\n",
      "                    - Path: ">>
    \o path
    \o <<"\n",
         "                    - Version: ">>
    \o Str(request.version)
    \o <<"\n",
         "\n",
         "                    Request Details:\n",
         "                    - Host: ">>
    \o OrElse(Get(request.headers, Host), NotSpecified)
    \o <<"\n",
         "                    - User-Agent: ">>
    \o OrElse(Get(request.headers, UserAgent), NotSpecified)
    \o <<"\n",
         "                    - Accept: ">>
    \o OrElse(Get(request.headers, Accept), NotSpecified)
    \o <<"\n",
         "\n",
         "                    Query Parameters: ">>
    \o (IF Len(queryParams) > 0 THEN Join(PairTexts(queryParams), <<",", " ">>) ELSE <<"None">>)
    \o <<"\n",
         "\n",
         "                    RFC References:\n",
         "                    - RFC 7231: HTTP/1.1 Semantics and Content (GET method)\n",
         "                    - RFC 3986: Uniform Resource Identifier (URI) Generic Syntax\n",
         "                    - RFC 7230: HTTP/1.1 Message Syntax and Routing">>

statusBody(env) ==
    <<"Server Status (GET /api/status)\n",
      "\n",
      "                    RFC 7231: GET method for resource retrieval\n",
      "                    Status: Running\n",
      "                    Timestamp: ">>
    \o env.iso
    \o <<"\n",
         "                    Uptime: ">>
    \o env.uptime
    \o <<" seconds\n",
         "                    Port: ">>
    \o NumStr(port)
    \o <<"\n",
         "\n",
         "                    RFC Compliance:\n",
         "                    - Safe: GET requests should not cause side effects\n",
         "                    - Idempotent: Multiple identical GET requests have same effect\n",
         "                    - Cacheable: GET responses can be cached (RFC 7234)">>

infoBody(request) ==
    <<"HTTP Server Information (GET /api/info)\n",
      "\n",
      "                    RFC 7231 GET Method Characteristics:\n",
      "                    1. Safe: No side effects on server state\n",
      "                    2. Idempotent: Multiple requests produce same result\n",
      "                    3. Cacheable: Responses can be cached\n",
      "                    4. Body: Should not have request body (RFC 7231 Section 4.3.1)\n",
      "\n",
      "                    Request Information:\n",
      "                    - Method: ">>
    \o Str(request.method)
    \o <<"\n",
         "                    - Path: ">>
    \o Str(request.path)
    \o <<"\n",
         "                    - Version: ">>
    \o Str(request.version)
    \o <<"\n",
         "                    - Headers Count: ">>
    \o NumStr(Len(request.headers))
    \o <<"\n",
         "\n",
         "                    RFC References:\n",
         "                    - RFC 7231 Section 4.3.1: GET method definition\n",
         "                    - RFC 7234: HTTP/1.1 Caching\n",
         "                    - RFC 3986: URI syntax and query parameters">>

notFoundGetBody(path) ==
    <<"404 Not Found\n",
      "\n",
      "                    RFC 7231: GET method for resource retrieval\n",
      "                    Requested path '">>
    \o path
    \o <<"' not found.\n",
         "\n",
         "                    Available GET endpoints:\n",
         "                    - GET / - Welcome page\n",
         "                    - GET /api/status - Server status\n",
         "                    - GET /api/info - Server information\n",
         "\n",
         "                    RFC 7231 Section 6.5.4: 404 Not Found status code\n",
         "                    The origin server did not find a current representation for the target resource.">>

Root == <<"/">>
ApiStatus == <<"/", "a", "p", "i", "/", "s", "t", "a", "t", "u", "s">>
ApiInfo == <<"/", "a", "p", "i", "/", "i", "n", "f", "o">>

\* The query parameters of handleGET: urlParts[1] || '' split at '&'.
queryParamsOf(urlParts) ==
    LET queryString == OrElse(Nth(urlParts, 2), <<>>)
    IN  IF queryString # <<>>
        THEN DecodeParams(Split(queryString, <<"&">>), 1, <<>>)
        ELSE [ok |-> TRUE, value |-> <<>>]

\* A switch that takes a path with a slash added for the path without it.
getStatusCodeSlashDropped(path) ==
    IF path \in {Root, ApiStatus, ApiInfo, ApiStatus \o <<"/">>, ApiInfo \o <<"/">>}
    THEN 200 ELSE 404

\* The switch (path) of handleGET.
getStatusCode(path) ==
    IF path \in {Root, ApiStatus, ApiInfo} THEN 200 ELSE 404

\* A welcome page that also carries the time of the call.
getResponseBodyDated(request, path, queryParams, env) ==
    CASE path = Root -> rootBody(request, path, queryParams) \o env.iso
      [] path = ApiStatus -> statusBody(env)
      [] path = ApiInfo -> infoBody(request)
      [] OTHER -> notFoundGetBody(path)

getResponseBody(request, path, queryParams, env) ==
    CASE path = Root -> rootBody(request, path, queryParams)
      [] path = ApiStatus -> statusBody(env)
      [] path = ApiInfo -> infoBody(request)
      [] OTHER -> notFoundGetBody(path)

TextPlainHeader == <<[key |-> ContentType, value |-> TextPlain]>>

\* The rest of handleGET, once the query parameters are parsed.
getResponse(request, path, queryParams, env) ==
    IF ~queryParams.ok THEN Raised
    ELSE Returned(createResponse(
             getStatusCode(path), TextPlainHeader,
             getResponseBody(request, path, queryParams.value, env)))

\* const path = urlParts[0]
getRoute(request, urlParts, env) ==
    getResponse(request, urlParts[1], queryParamsOf(urlParts), env)

\* A GET handling that fails on a request without a version.
handleGETNeedsVersion(request, env) ==
    IF request.path = Undefined \/ request.version = Undefined THEN Raised
    ELSE getRoute(request, Split(request.path, <<"?">>), env)

\* request.path.split('?') raises a TypeError on an undefined path.
handleGET(request, env) ==
    IF request.path = Undefined THEN Raised
    ELSE getRoute(request, Split(request.path, <<"?">>), env)

usersBody(request, contentType, parsedBody) ==
    <<"POST Request Processed Successfully!\n",
      "\n",
      "                    RFC 7231 Compliance:\n",
      "                    - Method: POST (Resource Creation)\n",
      "                    - Path: ">>
    \o Str(request.path)
    \o <<"\n",
         "                    - Version: ">>
    \o Str(request.version)
    \o <<"\n",
         "                    - Status: 201 Created\n",
         "\n",
         "                    Request Details:\n",
         "                    - Content-Type: ">>
    \o contentType
    \o <<"\n",
         "                    - Body Length: ">>
    \o NumStr(StrLength(request.body))
    \o <<" bytes\n",
         "                    - Host: ">>
    \o OrElse(Get(request.headers, Host), NotSpecified)
    \o <<"\n",
         "\n",
         "                    Parsed Body:\n",
         "                    ">>
    \o JSONStringify(parsedBody)
    \o <<"\n",
         "\n",
         "                    RFC 7231 Section 4.3.3: POST method characteristics:\n",
         "                    1. Not Safe: May cause side effects on server\n",
         "                    2. Not Idempotent: Multiple requests may have different effects\n",
         "                    3. Not Cacheable: Responses should not be cached\n",
         "                    4. Body: Contains data to be processed\n",
         "\n",
         "                    RFC References:\n",
         "                    - RFC 7231 Section 4.3.3: POST method definition\n",
         "                    - RFC 7231 Section 6.3.2: 201 Created status code\n",
         "                    - RFC 3986: URI syntax and resource identification">>

dataBody(request, contentType, parsedBody, env) ==
    <<"Data Processing Complete (POST /api/data)\n",
      "\n",
      "                    RFC 7231: POST method for data processing\n",
      "                    Status: 201 Created\n",
      "                    Timestamp: ">>
    \o env.iso
    \o <<"\n",
         "\n",
         "                    Received Data:\n",
         "                    ">>
    \o JSONStringify(parsedBody)
    \o <<"\n",
         "\n",
         "                    Processing Results:\n",
         "                    - Data Type: ">>
    \o contentType
    \o <<"\n",
         "                    - Fields Count: ">>
    \o NumStr(KeysLength(parsedBody))
    \o <<"\n",
         "                    - Processing Time: ">>
    \o env.now
    \o <<"ms\n",
         "\n",
         "                    RFC Compliance:\n",
         "                    - Not Safe: POST may cause side effects\n",
         "                    - Not Idempotent: Multiple requests may have different effects\n",
         "                    - Not Cacheable: Responses should not be cached\n",
         "                    - Body Required: POST requests should have a body (RFC 7231 Section 4.3.3)">>

echoBody(request, contentType, parsedBody) ==
    <<"Echo Response (POST /api/echo)\n",
      "\n",
      "                    RFC 7231: POST method for data submission\n",
      "                    Status: 200 OK\n",
      "\n",
      "                    Original Request:\n",
      "                    - Method: ">>
    \o Str(request.method)
    \o <<"\n",
         "                    - Path: ">>
    \o Str(request.path)
    \o <<"\n",
         "                    - Content-Type: ">>
    \o contentType
    \o <<"\n",
         "                    - Body Length: ">>
    \o NumStr(StrLength(request.body))
    \o <<" bytes\n",
         "\n",
         "                    Echoed Data:\n",
         "                    ">>
    \o JSONStringify(parsedBody)
    \o <<"\n",
         "\n",
         "                    RFC 7231 Section 4.3.3: POST method characteristics:\n",
         "                    - Purpose: Submit data to be processed\n",
         "                    - Body: Contains the data to be processed\n",
         "                    - Response: Contains the result of processing">>

notFoundPostBody(request) ==
    <<"404 Not Found\n",
      "\n",
      "                    RFC 7231: POST method for resource creation\n",
      "                    Requested path '">>
    \o Str(request.path)
    \o <<"' not found.\n",
         "\n",
         "                    Available POST endpoints:\n",
         "                    - POST /api/users - Create user resource\n",
         "                    - POST /api/data - Process data\n",
         "                    - POST /api/echo - Echo back request data\n",
         "\n",
         "                    RFC 7231 Section 6.5.4: 404 Not Found status code\n",
         "                    The origin server did not find a current representation for the target resource.">>

ApiUsers == <<"/", "a", "p", "i", "/", "u", "s", "e", "r", "s">>
ApiData == <<"/", "a", "p", "i", "/", "d", "a", "t", "a">>
ApiEcho == <<"/", "a", "p", "i", "/", "e", "c", "h", "o">>

\* request.headers['content-type'] || 'text/plain'
contentTypeOf(request) == OrElse(Get(request.headers, ContentTypeKey), TextPlain)

jsonBody(json) == [ok |-> json.ok, value |-> json.value]
formBody(form) == [ok |-> form.ok, value |-> JObject(StringValues(form.value))]
plainBody(body) ==
    [ok |-> TRUE,
     value |-> JObject(<<[key |-> <<"c", "o", "n", "t", "e", "n", "t">>,
                          value |-> JString(body)]>>)]

\* The try block of handlePOST: the parsed body, or [ok |-> FALSE] when
\* JSON.parse or decodeURIComponent throws.
parseBody(contentType, body) ==
    IF Includes(contentType, ApplicationJson) THEN jsonBody(JSONParse(body))
    ELSE IF Includes(contentType, FormUrlEncoded)
    THEN formBody(DecodeParams(Split(body, <<"&">>), 1, <<>>))
    ELSE plainBody(body)

parsedBodyOf(request) == parseBody(contentTypeOf(request), request.body)

\* A route switch of handlePOST that leaves the query out of the comparison.
postStatusCodeBeforeQuery(path) ==
    IF (IF IndexOf(path, <<"?">>, 1) = 0 THEN path
        ELSE SubSeq(path, 1, IndexOf(path, <<"?">>, 1) - 1))
           \in {ApiUsers, ApiData, ApiEcho}
    THEN 201 ELSE 404

\* The switch (request.path) of handlePOST: statusCode starts at 201 and only
\* the default case changes it; the echo case leaves 201 although its body
\* reads "Status: 200 OK".
postStatusCode(path) ==
    IF path \in {ApiUsers, ApiData, ApiEcho} THEN 201 ELSE 404

postResponseBody(request, contentType, parsedBody, env) ==
    CASE request.path = ApiUsers -> usersBody(request, contentType, parsedBody)
      [] request.path = ApiData -> dataBody(request, contentType, parsedBody, env)
      [] request.path = ApiEcho -> echoBody(request, contentType, parsedBody)
      [] OTHER -> notFoundPostBody(request)

BadBodyFormat == <<"Bad Request - Invalid request body format">>

\* A POST handling that looks at the path before the parsed body.
postResponsePathFirst(request, parsed, env) ==
    IF postStatusCode(request.path) = 404
    THEN Returned(createResponse(404, TextPlainHeader, notFoundPostBody(request)))
    ELSE IF ~parsed.ok
    THEN Returned(createResponse(400, TextPlainHeader, BadBodyFormat))
    ELSE IF request.path = ApiData /\ KeysLength(parsed.value) = -1
    THEN Raised
    ELSE Returned(createResponse(
             postStatusCode(request.path), TextPlainHeader,
             postResponseBody(request, contentTypeOf(request), parsed.value, env)))

\* The rest of handlePOST, after the try block: the 400 of its catch block,
\* or the route; Object.keys(parsedBody) raises a TypeError on null.
postResponse(request, parsed, env) ==
    IF ~parsed.ok
    THEN Returned(createResponse(400, TextPlainHeader, BadBodyFormat))
    ELSE IF request.path = ApiData /\ KeysLength(parsed.value) = -1
    THEN Raised
    ELSE Returned(createResponse(
             postStatusCode(request.path), TextPlainHeader,
             postResponseBody(request, contentTypeOf(request), parsed.value, env)))

\* A POST handling that raises on a request without a path.
handlePOSTNeedsPath(request, env) ==
    IF request.path = Undefined THEN Raised
    ELSE postResponse(request, parsedBodyOf(request), env)

handlePOST(request, env) == postResponse(request, parsedBodyOf(request), env)

----------------------------------------------------------------------------
(* The connection handler of start()                                       *)

Conns == {"c1", "c2"}

\* The bytes of U+00E9 and U+00C9 in UTF-8.
LeadByte == "xC3"
TrailBytes == {"xA9", "x89"}

\* What the decoder makes of the byte at position i of a chunk: a lead byte
\* and the trail byte after it make one character; a lead byte that the end
\* of the chunk or another byte cuts short, and a trail byte that continues
\* nothing, become U+FFFD.
DecodedAt(chunk, i) ==
    IF chunk[i] = LeadByte
    THEN IF i < Len(chunk) /\ chunk[i + 1] \in TrailBytes
         THEN <<IF chunk[i + 1] = "xA9" THEN EAcute ELSE CapitalEAcute>>
         ELSE <<Replacement>>
    ELSE IF chunk[i] \in TrailBytes
    THEN IF i > 1 /\ chunk[i - 1] = LeadByte THEN <<>> ELSE <<Replacement>>
    ELSE <<chunk[i]>>

RECURSIVE DecodedRange(_, _, _)
DecodedRange(chunk, lo, hi) ==
    IF lo > hi THEN <<>>
    ELSE IF lo = hi THEN DecodedAt(chunk, lo)
    ELSE DecodedRange(chunk, lo, (lo + hi) \div 2)
         \o DecodedRange(chunk, (lo + hi) \div 2 + 1, hi)

\* chunk.toString(), which `data += chunk` applies to the Buffer of a data
\* event.
Utf8Decode(chunk) == DecodedRange(chunk, 1, Len(chunk))

\* A test for one line end where the code tests for the blank line.
readyOnLineEnd(buffer) == Includes(buffer, CRLF)

\* A buffer is taken for a request once it is long enough, too.
readyOrLong(buffer) == Includes(buffer, CRLFCRLF) \/ Len(buffer) >= 6

\* if (data.includes('\r\n\r\n'))
ready(buffer) == Includes(buffer, CRLFCRLF)

GET == <<"G", "E", "T">>
POST == <<"P", "O", "S", "T">>

\* The body of the 405 response.
methodNotAllowedBody(request) ==
    <<"405 Method Not Allowed - Method '">> \o Str(request.method)
    \o <<"' not supported">>

\* A switch that matches the method whatever its case.
routeAnyCase(request, env) ==
    CASE ToLowerCase(request.method) = ToLowerCase(GET) ->
             [handler |-> "handleGET", result |-> handleGET(request, env)]
      [] ToLowerCase(request.method) = ToLowerCase(POST) ->
             [handler |-> "handlePOST", result |-> handlePOST(request, env)]
      [] OTHER ->
             [handler |-> "none",
              result |-> Returned(createResponse(405, TextPlainHeader,
                                                 methodNotAllowedBody(request)))]

\* switch (request.method): the handler called, if any, and its result.
route(request, env) ==
    CASE request.method = GET ->
             [handler |-> "handleGET", result |-> handleGET(request, env)]
      [] request.method = POST ->
             [handler |-> "handlePOST", result |-> handlePOST(request, env)]
      [] OTHER ->
             [handler |-> "none",
              result |-> Returned(createResponse(405, TextPlainHeader,
                                                 methodNotAllowedBody(request)))]

InvalidHttpFormat == <<"Bad Request - Invalid HTTP format">>

\* A catch block that answers with an internal server error.
errorResponseInternal == createResponse(500, TextPlainHeader, InvalidHttpFormat)

\* The response of the catch block.
errorResponse == createResponse(400, TextPlainHeader, InvalidHttpFormat)

Write(response) == [op |-> "write", response |-> response]
End == [op |-> "end", response |-> <<>>]

\* The socket calls of the try block and of the catch block.
tryCalls(response) == <<Write(response), End>>
\* A catch block that ends the connection and writes nothing.
catchEndsOnly == <<End>>

catchCalls == <<Write(errorResponse), End>>

\* One run of the try / catch of the data handler on the buffer, after the
\* chunk of this event: the parsed request, the handler called, whether an
\* exception reached the catch block, and the socket calls made.
ran(chunk, buffer, request, routed) ==
    [chunk |-> chunk,
     buffer |-> buffer,
     request |-> request,
     handler |-> routed.handler,
     raised |-> routed.result.raised,
     calls |-> IF routed.result.raised THEN catchCalls
               ELSE tryCalls(routed.result.response)]

dispatch(chunk, buffer, request, env) ==
    ran(chunk, buffer, request, route(request, env))

run(chunk, buffer, env) == dispatch(chunk, buffer, parseRequest(buffer), env)

\* What a socket does with the calls made on it: a write on a socket whose
\* end() was called is refused (write after end) and sends nothing.
RECURSIVE Transmit(_, _, _)
Transmit(state, made, out) ==
    IF Len(made) = 0 THEN [sock |-> state, sent |-> out]
    ELSE IF made[1].op = "write"
    THEN Transmit(state, Tail(made),
                  IF state = "open" THEN Append(out, made[1].response) ELSE out)
    ELSE Transmit(IF state = "open" THEN "ended" ELSE state, Tail(made), out)

\* The number of runs of the try block the model follows on one connection.
MaxRuns == 2

\* The socket after the calls of one run.
Transmitted(c, after) ==
    /\ sent' = [sent EXCEPT ![c] = after.sent]
    /\ sock' = [sock EXCEPT ![c] = after.sock]

\* The try / catch of the data handler has run.
Ran(c, this) ==
    /\ log' = [log EXCEPT ![c] = Append(@, this)]
    /\ calls' = [calls EXCEPT ![c] = @ \o this.calls]
    /\ Transmitted(c, Transmit(sock[c], this.calls, sent[c]))

\* A data handler whose buffer is one variable for all connections.
AppendedShared(c, chunk, buffer) ==
    /\ data' = [d \in Conns |-> buffer]
    /\ IF ready(buffer)
       THEN \E env \in Clock : Ran(c, run(chunk, buffer, env))
       ELSE UNCHANGED <<log, calls, sent, sock>>

\* data += chunk; if (data.includes('\r\n\r\n')) { try ... catch ... }
Appended(c, chunk, buffer) ==
    /\ data' = [data EXCEPT ![c] = buffer]
    /\ IF ready(buffer)
       THEN \E env \in Clock : Ran(c, run(chunk, buffer, env))
       ELSE UNCHANGED <<log, calls, sent, sock>>

\* The peer's next k bytes leave the stream and reach the socket.
Arrive(c, chunk) ==
    /\ stream' = [stream EXCEPT ![c] = SubSeq(@, Len(chunk) + 1, Len(@))]
    /\ received' = [received EXCEPT ![c] = @ \o chunk]
    /\ Appended(c, chunk, data[c] \o Utf8Decode(chunk))

\* socket.on('data', chunk => ...) for a chunk of the peer's next k bytes.
Receive(c, k) ==
    /\ sock[c] # "closed"
    /\ Len(log[c]) < MaxRuns
    /\ Arrive(c, SubSeq(stream[c], 1, k))
    /\ UNCHANGED <<call, result>>

\* A data event: the peer's bytes arrive in chunks cut at any byte.
Data(c) == \E k \in 1..Len(stream[c]) : Receive(c, k)

\* A data event that carries all the bytes the peer sends.
Deliver(c) == stream[c] # <<>> /\ Receive(c, Len(stream[c]))

\* socket.on('close'): the connection is gone; no data event follows.
Close(c) ==
    /\ sock[c] # "closed"
    /\ sock' = [sock EXCEPT ![c] = "closed"]
    /\ UNCHANGED <<stream, received, data, calls, sent, log, call, result>>

Next == \E c \in Conns : Data(c) \/ Close(c)

\* The connections just accepted (let data = ''), each with the bytes its
\* peer will send; a connection outside `peers` is one no client has opened.
Accepted(peers) ==
    /\ stream = [c \in Conns |-> IF c \in DOMAIN peers THEN peers[c] ELSE <<>>]
    /\ received = [c \in Conns |-> <<>>]
    /\ data = [c \in Conns |-> <<>>]
    /\ calls = [c \in Conns |-> <<>>]
    /\ sent = [c \in Conns |-> <<>>]
    /\ sock = [c \in Conns |-> IF c \in DOMAIN peers THEN "open" ELSE "closed"]
    /\ log = [c \in Conns |-> <<>>]

\* No method of the class is called directly.
NoCall == [op |-> "none"]
NotReturned == [done |-> FALSE]

----------------------------------------------------------------------------
(* The byte streams of the peers                                           *)

GetRoot ==
    <<"G", "E", "T", " ", "/", " ", "H", "T", "T", "P", "/", "1", ".", "1",
      CR, LF, CR, LF>>

PostEcho ==
    <<"P", "O", "S", "T", " ", "/", "a", "p", "i", "/", "e", "c", "h", "o",
      " ", "H", "T", "T", "P", "/", "1", ".", "1", CR, LF, "C", "o", "n",
      "t", "e", "n", "t", "-", "L", "e", "n", "g", "t", "h", ":", " ", "2",
      CR, LF, CR, LF, "h", "i">>

NoDelimiter ==
    <<"G", "E", "T", " ", "/", "a", CR, LF>>

DeleteRoot ==
    <<"D", "E", "L", "E", "T", "E", " ", "/", " ", "H", "T", "T", "P", "/",
      "1", ".", "1", CR, LF, CR, LF>>

GetNoPath ==
    <<"G", "E", "T", CR, LF, CR, LF>>

GetAccent ==
    <<"G", "E", "T", " ", "/", "xC3", "xA9", CR, LF, CR, LF>>

\* One client, whose bytes arrive cut into chunks at any byte.
Streams == {GetRoot, PostEcho, NoDelimiter, DeleteRoot, GetNoPath, GetAccent}

Init ==
    /\ \E bytes \in Streams : Accepted([c \in {"c1"} |-> bytes])
    /\ call = NoCall
    /\ result = NotReturned

Spec == Init /\ [][Next]_vars

Hello == <<"h", "e", "l", "l", "o">>

----------------------------------------------------------------------------
(* Whole requests, each delivered in one data event                        *)

\* Request methods other than POST: known, unknown, lower-case and empty.
RequestMethods ==
    {<<"G", "E", "T">>,
     <<"D", "E", "L", "E", "T", "E">>,
     <<"g", "e", "t">>,
     <<>>}

\* Request targets with the space before them, some with a query string
\* (escapes, a second "=" or "?", an empty key, a key alone), some a known
\* route in capitals or with a slash added; the last is a request line that
\* ends after the method.
GetTargets ==
    {<<" ", "/">>,
     <<" ", "/", "?", "n", "a", "m", "e", "=", "A", "%", "2", "0", "B">>,
     <<" ", "/", "?", "a", "=", "%">>,
     <<" ", "/", "?", "a", "=", "b", "=", "c">>,
     <<" ", "/", "?", "a", "=", "1", "?", "b", "=", "2", "&", "c", "=", "3">>,
     <<" ", "/", "?", "=", "x", "&", "k", "&", "a", "=", "%", "4", "1">>,
     <<" ", "/", "a", "p", "i", "/", "s", "t", "a", "t", "u", "s">>,
     <<" ", "/", "a", "p", "i", "/", "i", "n", "f", "o", "?", "x", "=", "1">>,
     <<" ", "/", "m", "i", "s", "s", "i", "n", "g">>,
     <<" ", "/", "a", "p", "i", "/", "s", "t", "a", "t", "u", "s", "/">>,
     <<" ", "/", "A", "P", "I", "/", "I", "N", "F", "O">>,
     <<" ", "/", "a", "p", "i", "/", "s", "t", "a", "t", "u", "s", "?", "/">>,
     <<" ", "/", "xC3", "xA9">>,
     <<" ", "/", "m", "i", "s", "s", "i", "n", "g", "?", "a", "=", "%", "z", "z">>,
     <<" ", "/", "a", "p", "i", "/", "s", "t", "a", "t", "u", "s", "?", "%", "=", "1">>,
     <<" ", "/", "?", "=", "%">>,
     <<" ", "/", "?", "a", "=", "b", "=", "%">>,
     <<" ", "/", "a", "p", "i", "/", "s", "t", "a", "t", "u", "s", "?", "x", "=", "1">>,
     <<>>}

\* The version with the space before it: current, older, missing, garbage.
RequestVersions ==
    {<<" ", "H", "T", "T", "P", "/", "1", ".", "1">>,
     <<" ", "H", "T", "T", "P", "/", "1", ".", "0">>,
     <<>>,
     <<" ", "b", "a", "n", "a", "n", "a">>}

\* Header blocks of requests without a body.
GetHeaderBlocks ==
    {<<>>,
     <<"H", "o", "s", "t", ":", " ", "h", CR, LF, "U", "s", "e", "r", "-",
        "A", "g", "e", "n", "t", ":", " ", "t", CR, LF, "A", "c", "c", "e",
        "p", "t", ":", " ", "*", "/", "*", CR, LF>>,
     <<"H", "O", "S", "T", ":", " ", "h", CR, LF, "n", "o", "c", "o", "l",
        "o", "n", CR, LF>>}

PostTargets ==
    {<<" ", "/", "a", "p", "i", "/", "u", "s", "e", "r", "s">>,
     <<" ", "/", "a", "p", "i", "/", "d", "a", "t", "a">>,
     <<" ", "/", "a", "p", "i", "/", "e", "c", "h", "o">>,
     <<" ", "/", "n", "o", "p", "e">>,
     <<" ", "/", "a", "p", "i", "/", "u", "s", "e", "r", "s", "?", "x", "=", "1">>}

PostHeaderBlocks ==
    {<<>>,
     <<"C", "o", "n", "t", "e", "n", "t", "-", "T", "y", "p", "e", ":",
        " ", "a", "p", "p", "l", "i", "c", "a", "t", "i", "o", "n", "/",
        "j", "s", "o", "n", CR, LF>>,
     <<"c", "o", "n", "t", "e", "n", "t", "-", "t", "y", "p", "e", ":",
        " ", "a", "p", "p", "l", "i", "c", "a", "t", "i", "o", "n", "/",
        "x", "-", "w", "w", "w", "-", "f", "o", "r", "m", "-", "u", "r",
        "l", "e", "n", "c", "o", "d", "e", "d", CR, LF>>,
     <<"C", "o", "n", "t", "e", "n", "t", "-", "T", "y", "p", "e", ":",
        " ", "t", "e", "x", "t", "/", "p", "l", "a", "i", "n", CR, LF>>,
     <<"C", "o", "n", "t", "e", "n", "t", "-", "T", "y", "p", "e", ":",
        " ", "a", "p", "p", "l", "i", "c", "a", "t", "i", "o", "n", "/",
        "j", "s", "o", "n", ";", " ", "c", "h", "a", "r", "s", "e", "t",
        "=", "u", "t", "f", "-", "8", CR, LF>>}

\* Bodies: empty, a JSON object, JSON null, broken JSON, a JSON array with a
\* two-byte character, a form with a broken escape, a JSON number, a form
\* with broken escapes after an empty key and after a second "=".
PostBodies ==
    {<<>>,
     <<"{", "\"", "n", "a", "m", "e", "\"", ":", "\"", "A", "\"", "}">>,
     <<"n", "u", "l", "l">>,
     <<"{", "b", "a", "d">>,
     <<"[", "1", ",", "\"", "xC3", "xA9", "\"", "]">>,
     <<"a", "=", "1", "&", "b", "=", "%">>,
     <<"4", "2">>,
     <<"=", "%", "&", "a", "=", "b", "=", "%", "z", "z">>}

\* The bytes of a request.
RequestBytes(method, target, version, headerBlock, body) ==
    method \o target \o version \o CRLF \o headerBlock \o CRLF \o body

Requests ==
    {RequestBytes(method, target, version, headerBlock, <<>>) :
         method \in RequestMethods, target \in GetTargets,
         version \in RequestVersions, headerBlock \in GetHeaderBlocks}
    \cup {RequestBytes(POST, target, <<" ", "H", "T", "T", "P", "/", "1", ".", "1">>,
                       headerBlock, body) :
             target \in PostTargets, headerBlock \in PostHeaderBlocks,
             body \in PostBodies}
    \cup {RequestBytes(POST, <<>>, <<>>, headerBlock, body) :
             headerBlock \in PostHeaderBlocks, body \in PostBodies}

\* One client, whose request arrives in one data event.
InitRequests ==
    /\ \E bytes \in Requests : Accepted([c \in {"c1"} |-> bytes])
    /\ call = NoCall
    /\ result = NotReturned

NextRequests == \E c \in Conns : Deliver(c) \/ Close(c)

SpecRequests == InitRequests /\ [][NextRequests]_vars

----------------------------------------------------------------------------
(* Properties of the data handler under chunked arrival (Spec)             *)

\* The socket calls of a connection that are writes.
Writes(c) == {i \in DOMAIN calls[c] : calls[c][i].op = "write"}

\* C1. A data event parses the buffer exactly when the bytes received on the
\* connection so far, the chunk of this event included, contain the four
\* bytes CR LF CR LF, wherever the chunks were cut; a data event that leaves
\* the received bytes without them changes nothing but the buffer: no parse,
\* no routing, no socket call.
C1_ParsesIffDelimiterReceived ==
    [][\A c \in Conns :
          received'[c] # received[c] =>
              /\ (Len(log'[c]) = Len(log[c]) + 1)
                     <=> Includes(received'[c], CRLFCRLF)
              /\ ~Includes(received'[c], CRLFCRLF) =>
                     /\ log'[c] = log[c]
                     /\ calls'[c] = calls[c]
                     /\ sent'[c] = sent[c]
                     /\ sock'[c] = sock[c]
                     /\ Len(data'[c]) > Len(data[c])]_vars

\* The first parse of a connection happened on a chunk that does not hold
\* the delimiter itself: the delimiter began in an earlier chunk.
C1_DelimiterStraddledChunks ==
    \E c \in Conns :
        /\ Len(log[c]) >= 1
        /\ ~Includes(log[c][1].chunk, CRLFCRLF)
        /\ Includes(log[c][1].buffer, CRLFCRLF)
        /\ Len(calls[c]) = 2

\* C2. On one connection the buffer is parsed at most once and a response
\* is written at most once: after the first response and end(), a further
\* chunk causes no parse, no routing and no write.
C2_AtMostOneResponse ==
    \A c \in Conns : Len(log[c]) <= 1 /\ Cardinality(Writes(c)) <= 1

\* The number the request declares in its Content-Length header.
DeclaredLength(request) ==
    NumberOf(Get(request.headers,
                 <<"c", "o", "n", "t", "e", "n", "t", "-", "l", "e", "n", "g",
                   "t", "h">>))

\* C4. A request that declares a Content-Length is parsed only once all the
\* body bytes it declares have been received: the body the parse sees is not
\* shorter than the declared length.
C4_BodyCompleteWhenParsed ==
    \A c \in Conns : \A i \in DOMAIN log[c] :
        HasKey(log[c][i].request.headers,
               <<"c", "o", "n", "t", "e", "n", "t", "-", "l", "e", "n", "g",
                 "t", "h">>)
            => ByteLength(log[c][i].request.body)
                   >= DeclaredLength(log[c][i].request)

----------------------------------------------------------------------------
(* Properties of the responses to whole requests (SpecRequests)            *)

\* A response as a client reads it off the wire: the text before the first
\* blank line cut into lines, and the text after it.
HeadOf(response) == SubSeq(response, 1, IndexOf(response, CRLFCRLF, 1) - 1)
BodyOf(response) ==
    SubSeq(response, IndexOf(response, CRLFCRLF, 1) + Len(CRLFCRLF),
           Len(response))
StatusLineOf(response) == Split(HeadOf(response), CRLF)[1]
HeaderLinesOf(response) == Tail(Split(HeadOf(response), CRLF))
StatusCodeOf(response) == NumberOf(SubSeq(StatusLineOf(response), 2, 4))
ReasonOf(response) ==
    SubSeq(StatusLineOf(response), 6, Len(StatusLineOf(response)))

\* The responses handed to socket.write on a connection.
Written(c) == {calls[c][i].response : i \in Writes(c)}

\* A status line, at least one header line, a blank line, a body.
HasResponseParts(response) ==
    /\ Includes(response, CRLFCRLF)
    /\ StatusLineOf(response) # <<>>
    /\ HeaderLinesOf(response) # <<>>
    /\ \A k \in DOMAIN HeaderLinesOf(response) :
           HeaderLinesOf(response)[k] # <<>>

\* C3. Every buffer that holds CR LF CR LF has been answered, whatever it
\* holds: each run of the handler calls write with a response made of a
\* status line, header lines, a blank line and a body, and then end, also
\* when the handler raised; end is never called on a connection on which no
\* response was written.
C3_AlwaysRespondsBeforeEnd ==
    \A c \in Conns :
        /\ ready(data[c]) => Len(log[c]) >= 1
        /\ Len(calls[c]) = 2 * Len(log[c])
        /\ \A i \in DOMAIN log[c] :
               /\ calls[c][2 * i - 1].op = "write"
               /\ HasResponseParts(calls[c][2 * i - 1].response)
               /\ calls[c][2 * i].op = "end"
        /\ \A i \in DOMAIN calls[c] :
               calls[c][i].op = "end" => \E j \in 1..(i - 1) : j \in Writes(c)
        /\ sock[c] = "ended" =>
               sent[c] # <<>> /\ sent[c][1] = calls[c][1].response

\* A handler raised, and the connection still got a response before end().
C3_RaisedAndAnswered ==
    \E c \in Conns :
        /\ Len(log[c]) = 1
        /\ log[c][1].raised
        /\ sock[c] = "ended"
        /\ Len(sent[c]) = 1
        /\ StatusCodeOf(sent[c][1]) = 400

\* The body the 405 response must carry for a method.
NotSupported(method) ==
    <<"405 Method Not Allowed - Method '">> \o method \o <<"' not supported">>

\* C5. The router dispatches on the parsed method: exactly GET runs the GET
\* handler, exactly POST runs the POST handler, and any other method M, the
\* empty one included, runs neither and is answered with status 405 and the
\* body "405 Method Not Allowed - Method 'M' not supported".
C5_DispatchOnMethod ==
    \A c \in Conns : \A i \in DOMAIN log[c] :
        /\ log[c][i].handler = "handleGET" <=> log[c][i].request.method = GET
        /\ log[c][i].handler = "handlePOST" <=> log[c][i].request.method = POST
        /\ log[c][i].request.method \notin {GET, POST} =>
               /\ log[c][i].handler = "none"
               /\ ~log[c][i].raised
               /\ StatusCodeOf(log[c][i].calls[1].response) = 405
               /\ BodyOf(log[c][i].calls[1].response)
                      = NotSupported(log[c][i].request.method)

\* A request with an empty method was answered 405 by neither handler.
C5_EmptyMethodRefused ==
    \E c \in Conns :
        /\ Len(log[c]) = 1
        /\ log[c][1].request.method = <<>>
        /\ log[c][1].handler = "none"
        /\ Len(sent[c]) = 1
        /\ BodyOf(sent[c][1]) = NotSupported(<<>>)

\* The reason phrases the status line is said to carry.
ReasonPhrase(code) ==
    CASE code = 200 -> <<"OK">>
      [] code = 201 -> <<"Created">>
      [] code = 400 -> <<"Bad Request">>
      [] code = 404 -> <<"Not Found">>
      [] code = 405 -> <<"Method Not Allowed">>
      [] code = 500 -> <<"Internal Server Error">>
      [] OTHER -> <<"Unknown">>

\* C6. The status line of every response carries the reason phrase of the
\* fixed table for its code (200 OK, 201 Created, 400 Bad Request, 404 Not
\* Found, 405 Method Not Allowed, 500 Internal Server Error): every 405
\* response starts with "HTTP/1.1 405 Method Not Allowed".
C6_ReasonPhraseOfTable ==
    \A c \in Conns : \A response \in Written(c) :
        ReasonOf(response) = ReasonPhrase(StatusCodeOf(response))

\* The header lines of a response that carry the name Content-Length.
ContentLengthLines(response) ==
    {k \in DOMAIN HeaderLinesOf(response) :
        /\ Len(HeaderLinesOf(response)[k]) > Len(ContentLength)
        /\ SubSeq(HeaderLinesOf(response)[k], 1, Len(ContentLength) + 1)
               = ContentLength \o <<": ">>}

\* The one Content-Length line of a response gives the byte length of the
\* body after the blank line.
LengthMatchesBody(response) ==
    /\ Cardinality(ContentLengthLines(response)) = 1
    /\ \A k \in ContentLengthLines(response) :
           HeaderLinesOf(response)[k]
               = ContentLength \o <<": ">> \o NumStr(ByteLength(BodyOf(response)))

\* C7. Every response the server writes, for every status and route, has
\* exactly one Content-Length header, whose value is the byte length of the
\* body after the blank line; createResponse(200, {}, 'hello') contains
\* "Content-Length: 5" and ends with the blank line and "hello".
C7_ContentLengthIsBodyByteLength ==
    /\ \A c \in Conns : \A response \in Written(c) : LengthMatchesBody(response)
    /\ Includes(createResponse(200, <<>>, Hello),
                CRLF \o ContentLength \o <<": ", "5">> \o CRLF)
    /\ SubSeq(createResponse(200, <<>>, Hello),
              Len(createResponse(200, <<>>, Hello)) - 8,
              Len(createResponse(200, <<>>, Hello))) = CRLFCRLF \o Hello

\* A response whose body holds a character of two bytes was written.
C7_TwoByteCharacterInBody ==
    \E c \in Conns : \E response \in Written(c) :
        /\ \E k \in DOMAIN BodyOf(response) : BodyOf(response)[k] = EAcute
        /\ ByteLength(BodyOf(response)) > StrLength(BodyOf(response))
        /\ sent[c] = <<response>>

\* The wire form of a response: the literal version, a code of three digits,
\* a reason phrase, then lines `name: value`, a blank line and the body.
WireForm(response) ==
    /\ Includes(response, CRLFCRLF)
    /\ Len(StatusLineOf(response)) >= 6
    /\ StatusLineOf(response)[1] = "HTTP/1.1 "
    /\ \A k \in 2..4 : IsDigit(StatusLineOf(response)[k])
    /\ StatusLineOf(response)[5] = " "
    /\ \A k \in DOMAIN HeaderLinesOf(response) :
           IndexOf(HeaderLinesOf(response)[k], <<": ">>, 1) > 1
    /\ response
           = StatusLineOf(response) \o CRLF
             \o Join(HeaderLinesOf(response), CRLF) \o CRLFCRLF
             \o BodyOf(response)

\* C8. Every response has the form "HTTP/1.1 <code> <reason>" CR LF, one
\* line "<name>: <value>" CR LF per header, an empty line and the body; the
\* version is the literal HTTP/1.1 whatever version the request declared.
C8_WireFormOfResponse ==
    \A c \in Conns : \A response \in Written(c) : WireForm(response)

\* A request that declared another version, or none, was answered.
C8_OtherVersionAnswered ==
    \E c \in Conns :
        /\ Len(log[c]) = 1
        /\ log[c][1].request.version
               \in {Undefined, <<"H", "T", "T", "P", "/", "1", ".", "0">>,
                    <<"b", "a", "n", "a", "n", "a">>}
        /\ log[c][1].request.method = GET
        /\ Len(sent[c]) = 1
        /\ StatusLineOf(sent[c][1])[1] = "HTTP/1.1 "

----------------------------------------------------------------------------
(* createResponse called directly (SpecResponse)                           *)

\* The most headers a caller passes.
MaxCallerHeaders == 2

\* Header names a caller may pass: the defaults' names, one that differs
\* from a default only by case, a new name, and names made of digits.
CallerNames ==
    {ContentType, ContentLength, Connection,
     <<"c", "o", "n", "t", "e", "n", "t", "-", "t", "y", "p", "e">>,
     <<"X", "-", "A">>, <<"2">>, <<"1", "0">>, <<"0", "1">>}

CallerValues == {<<"v">>, <<"w">>}

\* The headers in the order the caller added them, no name twice.
CallerHeaders ==
    {entries \in UNION {[1..n -> [key : CallerNames, value : CallerValues]] :
                           n \in 0..MaxCallerHeaders} :
        \A i, j \in DOMAIN entries :
            entries[i].key = entries[j].key => i = j}

InitResponse ==
    /\ Accepted(<<>>)
    /\ call \in [op : {"createResponse"}, statusCode : {200, 404},
                 headers : CallerHeaders, body : {<<>>, Hello}]
    /\ result = NotReturned

\* this.createResponse(statusCode, headers, body), headers the object that
\* holds the caller's entries.
CallCreateResponse ==
    /\ call.op = "createResponse"
    /\ ~result.done
    /\ result' = [done |-> TRUE,
                  value |-> createResponse(call.statusCode,
                                           Spread(<<>>, call.headers),
                                           call.body)]
    /\ UNCHANGED <<call, stream, received, data, calls, sent, sock, log>>

NextResponse == CallCreateResponse

SpecResponse == InitResponse /\ [][NextResponse]_vars

\* A header line as an entry: the name before the first ": ", the value
\* after it.
EntryAt(line, separator) ==
    [key |-> SubSeq(line, 1, separator - 1),
     value |-> SubSeq(line, separator + 1, Len(line))]
EntryOfLine(line) == EntryAt(line, IndexOf(line, <<": ">>, 1))
EntriesOfLines(lines) == [k \in DOMAIN lines |-> EntryOfLine(lines[k])]

\* The header lines of a response as entries, in the order emitted.
EmittedHeaders(response) == EntriesOfLines(HeaderLinesOf(response))

Entries(obj) == {obj[k] : k \in DOMAIN obj}

\* The defaults for a body, in their order.
Defaults(body) ==
    <<[key |-> ContentType, value |-> TextPlain],
      [key |-> ContentLength, value |-> NumStr(ByteLength(body))],
      [key |-> Connection, value |-> <<"c", "l", "o", "s", "e">>]>>

\* The caller's entries whose name is, or is not, the name of a default.
IsDefaultName(key) == key \in {ContentType, ContentLength, Connection}
IsAdditional(entry) == ~IsDefaultName(entry.key)

\* Every caller header is emitted with the caller's value, every default
\* the caller did not name exactly is emitted with the default's value,
\* nothing else is emitted and no name is emitted twice.
MergedOverDefaults(caller, body, emitted) ==
    /\ \A i, j \in DOMAIN emitted : emitted[i].key = emitted[j].key => i = j
    /\ Entries(caller) \subseteq Entries(emitted)
    /\ \A d \in Entries(Defaults(body)) :
           (\A e \in Entries(caller) : e.key # d.key) => d \in Entries(emitted)
    /\ Len(emitted)
           = 3 + Cardinality({e \in Entries(caller) : IsAdditional(e)})

\* C9. createResponse merges the caller's headers over the defaults: a
\* caller header with exactly the name of a default replaces its value, a
\* caller header that differs only by case is emitted as well, no name is
\* emitted twice, and the order is Content-Type, Content-Length, Connection
\* and then the remaining caller headers in the order supplied.
C9_DefaultsThenCallerOrder ==
    result.done =>
        /\ MergedOverDefaults(call.headers, call.body,
                              EmittedHeaders(result.value))
        /\ Keys(EmittedHeaders(result.value))
               = Keys(Defaults(call.body))
                 \o Keys(SelectSeq(call.headers, IsAdditional))

\* A name that JavaScript treats as an array index.
IsIndexName(entry) == IsArrayIndex(entry.key)
IsPlainAdditional(entry) == IsAdditional(entry) /\ ~IsIndexName(entry)

\* The names in ascending order of the number they write.
Ascending(names) ==
    [k \in DOMAIN names |->
        names[CHOOSE i \in DOMAIN names :
                 Cardinality({j \in DOMAIN names :
                                 NumberOf(names[j]) <= NumberOf(names[i])}) = k]]

\* C9, amended. The merge is as stated, and the order is: the caller headers
\* whose name is a canonical array index (digits, no leading zero) in
\* ascending numeric order, then Content-Type, Content-Length, Connection,
\* then the remaining caller headers in the order supplied.
C9_IndexNamesThenDefaultsThenCallerOrder ==
    result.done =>
        /\ MergedOverDefaults(call.headers, call.body,
                              EmittedHeaders(result.value))
        /\ Keys(EmittedHeaders(result.value))
               = Ascending(Keys(SelectSeq(call.headers, IsIndexName)))
                 \o Keys(Defaults(call.body))
                 \o Keys(SelectSeq(call.headers, IsPlainAdditional))

\* A response built from a caller header that replaces a default and one
\* whose name is an array index.
C9_ReplacedDefaultAndIndexName ==
    /\ result.done
    /\ Len(call.headers) = 2
    /\ \E i, j \in DOMAIN call.headers :
           /\ call.headers[i].key = ContentType
           /\ IsArrayIndex(call.headers[j].key)
    /\ EmittedHeaders(result.value)[2].value \in CallerValues

----------------------------------------------------------------------------
(* parseRequest called directly (SpecParse)                                *)

\* The most header lines of a request.
MaxHeaderLines == 2

\* Request-line tokens: none holds a space or a line end.
MethodTokens ==
    {GET, <<"g", "e", "t">>, <<"M", "-", "S", "E", "A", "R", "C", "H">>}
PathTokens ==
    {<<"/">>, <<"/", "a", "?", "b", "=", "c", ":", "d">>, <<"/", EAcute>>}
VersionTokens ==
    {<<"H", "T", "T", "P", "/", "1", ".", "1">>,
     <<"H", "T", "T", "P", "/", "1", ".", "0">>,
     <<"b", "a", "n", "a", "n", "a">>}

\* Header names in several casings, and values of which one holds a colon.
HeaderNames ==
    {<<"H", "o", "s", "t">>, <<"H", "O", "S", "T">>,
     <<"X", "-", CapitalEAcute>>, ProtoKey}
HeaderValues == {<<"h">>, <<"h", ":", "8", "0">>}

\* Bodies: empty, and one that holds a blank line.
BodyTexts == {<<>>, <<"a", CR, LF, CR, LF, "B", ":", "c">>}

HeaderFields ==
    UNION {[1..n -> [name : HeaderNames, value : HeaderValues]] :
              n \in 0..MaxHeaderLines}

\* (header CRLF)*
RECURSIVE HeaderBlock(_)
HeaderBlock(fields) ==
    IF Len(fields) = 0 THEN <<>>
    ELSE fields[1].name \o <<":", " ">> \o fields[1].value \o CRLF
         \o HeaderBlock(Tail(fields))

\* METHOD SP PATH SP VERSION CRLF (header CRLF)* CRLF BODY
RequestText(parts) ==
    parts.method \o <<" ">> \o parts.path \o <<" ">> \o parts.version \o CRLF
    \o HeaderBlock(parts.headers) \o CRLF \o parts.body

InitParse ==
    /\ Accepted(<<>>)
    /\ call \in [op : {"parseRequest"}, method : MethodTokens,
                 path : PathTokens, version : VersionTokens,
                 headers : HeaderFields, body : BodyTexts]
    /\ result = NotReturned

\* this.parseRequest(data)
CallParseRequest ==
    /\ call.op = "parseRequest"
    /\ ~result.done
    /\ result' = [done |-> TRUE, value |-> parseRequest(RequestText(call))]
    /\ UNCHANGED <<call, stream, received, data, calls, sent, sock, log>>

NextParse == CallParseRequest

SpecParse == InitParse /\ [][NextParse]_vars

\* No upper-case letter is left in a text.
IsLowerCase(text) ==
    \A k \in DOMAIN text : \A u \in DOMAIN UpperCase : text[k] # UpperCase[u]

\* C10. For every input METHOD SP PATH SP VERSION CRLF (header CRLF)* CRLF
\* BODY, parseRequest returns the three tokens of the request line as sent,
\* and every key of the headers it returns is lower-case, whatever the case
\* of the name in the input: Host: and HOST: both give the key host.
C10_RequestLineAndLowerCaseKeys ==
    result.done =>
        /\ result.value.method = call.method
        /\ result.value.path = call.path
        /\ result.value.version = call.version
        /\ \A k \in DOMAIN result.value.headers :
               IsLowerCase(result.value.headers[k].key)
        /\ \A k \in DOMAIN call.headers :
               call.headers[k].name
                   \in {<<"H", "o", "s", "t">>, <<"H", "O", "S", "T">>}
               => HasKey(result.value.headers, <<"h", "o", "s", "t">>)

\* A request with the name HOST in capitals and a body was parsed.
C10_CapitalsHostParsed ==
    /\ result.done
    /\ \E k \in DOMAIN call.headers :
           call.headers[k].name = <<"H", "O", "S", "T">>
    /\ call.body # <<>>
    /\ Get(result.value.headers, <<"h", "o", "s", "t">>) \in HeaderValues

----------------------------------------------------------------------------
(* parseRequest called on any text (SpecParseText)                         *)

\* The longest text parsed.
MaxTextLen == 6

\* Texts of letters, colons and line-end characters in any arrangement.
TextAlphabet == {"a", ":", CR, LF}
Texts == UNION {[1..n -> TextAlphabet] : n \in 0..MaxTextLen}

InitParseText ==
    /\ Accepted(<<>>)
    /\ call \in [op : {"parseText"}, text : Texts]
    /\ result = NotReturned

\* this.parseRequest(data) for any string data.
CallParseText ==
    /\ call.op = "parseText"
    /\ ~result.done
    /\ result' = [done |-> TRUE, value |-> parseRequest(call.text)]
    /\ UNCHANGED <<call, stream, received, data, calls, sent, sock, log>>

NextParseText == CallParseText

SpecParseText == InitParseText /\ [][NextParseText]_vars

\* The lines of a text, and among the lines after the first the empty ones
\* (positions counted from 1: position 2 is line index 1).
LinesOf(text) == Split(text, CRLF)
EmptyLines(lines) == {i \in 2..Len(lines) : lines[i] = <<>>}
FirstEmptyLine(lines) ==
    CHOOSE i \in EmptyLines(lines) : \A j \in EmptyLines(lines) : i <= j

\* The header keys that the lines first..last give: the lower-cased text
\* before the first colon of each line that holds a colon.
KeysOfLines(lines, first, last) ==
    {ToLowerCase(SubSeq(lines[i], 1, IndexOf(lines[i], <<":">>, 1) - 1)) :
        i \in {k \in first..last : Includes(lines[k], <<":">>)}}

\* What parseRequest must return for the lines of a text.
BodyAndHeadersFollowLines(lines, request) ==
    IF EmptyLines(lines) = {}
    THEN /\ request.body = <<>>
         /\ {request.headers[k].key : k \in DOMAIN request.headers}
                = KeysOfLines(lines, 2, Len(lines))
    ELSE /\ request.body
                = Join(SubSeq(lines, FirstEmptyLine(lines) + 1, Len(lines)),
                       CRLF)
         /\ {request.headers[k].key : k \in DOMAIN request.headers}
                = KeysOfLines(lines, 2, FirstEmptyLine(lines) - 1)

\* C11. For every input text the body parseRequest returns is the text after
\* the first empty line at line index 1 or later (for a text that holds
\* CR LF CR LF: everything after its first occurrence, later line ends kept),
\* no line after that empty line becomes a header, and without an empty line
\* the body is empty and every line after line 0 is scanned as a header.
C11_BodyFollowsFirstEmptyLine ==
    result.done =>
        /\ BodyAndHeadersFollowLines(LinesOf(call.text), result.value)
        /\ Includes(call.text, CRLFCRLF) =>
               result.value.body
                   = SubSeq(call.text,
                            IndexOf(call.text, CRLFCRLF, 1) + Len(CRLFCRLF),
                            Len(call.text))

\* A text was parsed whose body holds a line end and a line with a colon.
C11_BodyWithColonLineParsed ==
    /\ result.done
    /\ Includes(call.text, CRLFCRLF)
    /\ Includes(result.value.body, <<":">>)
    /\ result.value.headers = <<>>

----------------------------------------------------------------------------
(* Properties of parsing and routing of whole requests (SpecRequests)      *)

\* The tokens of the request line of a buffer.
RequestLineTokens(buffer) == Split(Split(buffer, CRLF)[1], <<" ">>)

\* The request holds the first three tokens of the request line, a missing
\* one left undefined.
FieldsFollowTokens(request, tokens) ==
    /\ request.method = tokens[1]
    /\ request.path = (IF Len(tokens) >= 2 THEN tokens[2] ELSE Undefined)
    /\ request.version = (IF Len(tokens) >= 3 THEN tokens[3] ELSE Undefined)
    /\ DOMAIN request = {"method", "path", "version", "headers", "body"}

\* A request line of two tokens is routed by its method and path.
TwoTokensRouted(entry, tokens) ==
    Len(tokens) = 2 =>
        /\ tokens[1] = GET /\ tokens[2] = Root =>
               /\ entry.handler = "handleGET"
               /\ ~entry.raised
               /\ StatusCodeOf(entry.calls[1].response) = 200
        /\ tokens[1] \notin {GET, POST} =>
               StatusCodeOf(entry.calls[1].response) = 405

\* C12. parseRequest returns a request for every input and raises nothing:
\* a request line of fewer than three tokens leaves the missing fields
\* undefined, and a request line of two tokens (GET /) still gets the
\* response its method and path select (200 for GET /), the absent version
\* failing nothing.
C12_ShortRequestLineStillRouted ==
    \A c \in Conns : \A i \in DOMAIN log[c] :
        /\ FieldsFollowTokens(log[c][i].request,
                              RequestLineTokens(log[c][i].buffer))
        /\ TwoTokensRouted(log[c][i], RequestLineTokens(log[c][i].buffer))
        /\ log[c][i].raised => log[c][i].handler # "none"

\* GET / without a version was answered 200.
C12_GetRootWithoutVersion ==
    \E c \in Conns :
        /\ Len(log[c]) = 1
        /\ log[c][1].request.method = GET
        /\ log[c][1].request.path = Root
        /\ log[c][1].request.version = Undefined
        /\ Len(sent[c]) = 1
        /\ StatusCodeOf(sent[c][1]) = 200

\* The text from position `from` of a text on, and the text before and
\* after the first occurrence of a separator (all of it before, none after,
\* when the separator is absent).
From(text, from) == SubSeq(text, from, Len(text))
Before(text, at) == IF at = 0 THEN text ELSE SubSeq(text, 1, at - 1)
After(text, at, width) == IF at = 0 THEN <<>> ELSE From(text, at + width)
BeforeFirst(text, sep) == Before(text, IndexOf(text, sep, 1))
AfterFirst(text, sep) == After(text, IndexOf(text, sep, 1), Len(sep))

\* The parameters a query string gives when every pair is cut at its first
\* "=": pairs with an empty key skipped, keys and values percent-decoded, a
\* later pair replacing an earlier one of the same key.
RECURSIVE PairsAtFirstEquals(_, _, _)
PairsAtFirstEquals(pairs, i, obj) ==
    IF i > Len(pairs) THEN obj
    ELSE IF BeforeFirst(pairs[i], <<"=">>) = <<>>
    THEN PairsAtFirstEquals(pairs, i + 1, obj)
    ELSE PairsAtFirstEquals(
             pairs, i + 1,
             Assign(obj, decodeURIComponent(BeforeFirst(pairs[i], <<"=">>)).value,
                    decodeURIComponent(AfterFirst(pairs[i], <<"=">>)).value))

\* The line "Query Parameters:" of the body of GET / for given parameters.
QueryLine(params) ==
    IF Len(params) > 0 THEN Join(PairTexts(params), <<",", " ">>)
    ELSE <<"None">>

\* The same line as it stands in a response body.
QueryLineAt(body, at) ==
    Before(From(body, at + 1), IndexOf(From(body, at + 1), <<"\n">>, 1))
QueryLineOf(body) ==
    QueryLineAt(body,
                IndexOf(body, <<"                    Query Parameters: ">>, 1))

\* C13. In GET handling the path is cut at its first "?" only, the query
\* string being all the text after it, and each pair between "&" is cut at
\* its first "=" only, the value being all the text after it; pairs with an
\* empty key are skipped, keys and values are percent-decoded: /?a=b=c gives
\* the parameter a the value b=c.
C13_QueryCutAtFirstSeparators ==
    \A c \in Conns : \A i \in DOMAIN log[c] :
        (/\ log[c][i].handler = "handleGET"
         /\ ~log[c][i].raised
         /\ BeforeFirst(log[c][i].request.path, <<"?">>) = Root)
        => QueryLineOf(BodyOf(log[c][i].calls[1].response))
               = QueryLine(PairsAtFirstEquals(
                     Split(AfterFirst(log[c][i].request.path, <<"?">>), <<"&">>),
                     1, <<>>))

\* The routes of GET, and the lines of the 404 body that list them.
GetRoutes == {Root, ApiStatus, ApiInfo}
ListsGetRoutes(body) ==
    /\ Includes(body, <<"                    - GET / - Welcome page\n">>)
    /\ Includes(body, <<"                    - GET /api/status - Server status\n">>)
    /\ Includes(body, <<"                    - GET /api/info - Server information\n">>)

\* The status the text before the first "?" of a path selects.
SelectedByPath(response, path) ==
    IF BeforeFirst(path, <<"?">>) \in GetRoutes
    THEN StatusCodeOf(response) = 200
    ELSE StatusCodeOf(response) = 404 /\ ListsGetRoutes(BodyOf(response))

\* C14. Every GET request whose query string has no malformed percent
\* escape is answered 200 when the text before the first "?" is exactly /,
\* /api/status or /api/info, and 404 with a body that lists these three
\* routes otherwise: the query string selects nothing, and neither case nor
\* a trailing slash is normalised.
C14_GetStatusByExactPath ==
    \A c \in Conns : \A i \in DOMAIN log[c] :
        (/\ log[c][i].request.method = GET
         /\ decodeURIComponent(
                AfterFirst(Str(log[c][i].request.path), <<"?">>)).ok)
        => SelectedByPath(log[c][i].calls[1].response,
                          Str(log[c][i].request.path))

\* C14, amended. The same for every GET request whose request line has a
\* path; a GET request line without a path is answered 400 with the body
\* "Bad Request - Invalid HTTP format".
C14_GetStatusByExactPathWhenPresent ==
    \A c \in Conns : \A i \in DOMAIN log[c] :
        log[c][i].request.method = GET =>
            IF log[c][i].request.path = Undefined
            THEN /\ StatusCodeOf(log[c][i].calls[1].response) = 400
                 /\ BodyOf(log[c][i].calls[1].response) = InvalidHttpFormat
            ELSE decodeURIComponent(
                     AfterFirst(log[c][i].request.path, <<"?">>)).ok
                 => SelectedByPath(log[c][i].calls[1].response,
                                   log[c][i].request.path)

\* GET /api/status/ was answered 404 with the list of the routes.
C14_TrailingSlashNotFound ==
    \E c \in Conns :
        /\ Len(log[c]) = 1
        /\ log[c][1].request.method = GET
        /\ log[c][1].request.path = ApiStatus \o <<"/">>
        /\ Len(sent[c]) = 1
        /\ StatusCodeOf(sent[c][1]) = 404
        /\ ListsGetRoutes(BodyOf(sent[c][1]))

\* The bodies sent that are no JSON text.
NotJson ==
    {<<>>, <<"{", "b", "a", "d">>, <<"a", "=", "1", "&", "b", "=", "%">>,
     <<"=", "%", "&", "a", "=", "b", "=", "%", "z", "z">>}

\* The value of the content-type header of a request contains a text.
DeclaresKind(request, kind) ==
    /\ HasKey(request.headers, ContentTypeKey)
    /\ Includes(Get(request.headers, ContentTypeKey), kind)

\* C15. A POST request whose content-type value contains application/json
\* and whose body is not valid JSON is answered 400 with the body "Bad
\* Request - Invalid request body format", whatever its path, known or not:
\* the path is not looked at, the answer is never 404, 200 or 201.
C15_BadJsonIs400OnEveryPath ==
    \A c \in Conns : \A i \in DOMAIN log[c] :
        (/\ log[c][i].request.method = POST
         /\ DeclaresKind(log[c][i].request, ApplicationJson)
         /\ log[c][i].request.body \in NotJson)
        => /\ log[c][i].handler = "handlePOST"
           /\ ~log[c][i].raised
           /\ StatusCodeOf(log[c][i].calls[1].response) = 400
           /\ BodyOf(log[c][i].calls[1].response)
                  = <<"Bad Request - Invalid request body format">>

\* Broken JSON sent to a path that is no route was answered 400.
C15_BadJsonOnUnknownPath ==
    \E c \in Conns :
        /\ Len(log[c]) = 1
        /\ log[c][1].request.method = POST
        /\ log[c][1].request.path \notin {ApiUsers, ApiData, ApiEcho}
        /\ DeclaresKind(log[c][1].request, ApplicationJson)
        /\ log[c][1].request.body = <<"{", "b", "a", "d">>
        /\ Len(sent[c]) = 1
        /\ StatusCodeOf(sent[c][1]) = 400

PostRoutes == {ApiUsers, ApiData, ApiEcho}

ListsPostRoutes(body) ==
    /\ Includes(body, <<"                    - POST /api/users - Create user resource\n">>)
    /\ Includes(body, <<"                    - POST /api/data - Process data\n">>)
    /\ Includes(body, <<"                    - POST /api/echo - Echo back request data\n">>)

\* The answer to a POST request whose body parsed: a success status on the
\* three routes, 404 with the list of routes elsewhere.
ParsedPostAnswered(entry) ==
    /\ entry.handler = "handlePOST"
    /\ ~entry.raised
    /\ IF entry.request.path \in PostRoutes
       THEN StatusCodeOf(entry.calls[1].response) \in {200, 201}
       ELSE /\ StatusCodeOf(entry.calls[1].response) = 404
            /\ ListsPostRoutes(BodyOf(entry.calls[1].response))

\* C16. A POST request whose body parses without error under its declared
\* content kind (any JSON value, null included; any decodable form; any body
\* under another or no content type) is answered 201 or 200 when its path is
\* exactly /api/users, /api/data or /api/echo, and 404 listing the POST
\* routes for every other path.
C16_ParsedPostSelectsByPath ==
    \A c \in Conns : \A i \in DOMAIN log[c] :
        (/\ log[c][i].request.method = POST
         /\ parsedBodyOf(log[c][i].request).ok)
        => ParsedPostAnswered(log[c][i])

StatusCodesProduced == {200, 201, 400, 404, 405}

\* C17. Every response the connection handler writes, whatever the request
\* and whichever branch answered it (a handler, the default case of the method
\* switch, the catch block), has a status code among 200, 201, 400, 404 and
\* 405; status 500 is never written.
C17_StatusCodesProduced ==
    \A c \in Conns : \A response \in Written(c) :
        /\ StatusCodeOf(response) \in StatusCodesProduced
        /\ StatusCodeOf(response) # 500

\* A handler raised on a parsed body (JSON null sent to /api/data) and the
\* catch block wrote its response.
C17_HandlerRaisedAnswered400 ==
    \E c \in Conns :
        /\ Len(log[c]) = 1
        /\ log[c][1].handler = "handlePOST"
        /\ log[c][1].raised
        /\ Written(c) # {}
        /\ \A response \in Written(c) : StatusCodeOf(response) = 400

\* ---------------------------------------------------------------------------
\* handleGET called twice with one parsed request (SpecGetTwice)
\* ---------------------------------------------------------------------------

\* The parsed GET requests handed to the handler.
GetRequests ==
    {parseRequest(Utf8Decode(RequestBytes(GET, target, version, headerBlock, <<>>))) :
         target \in GetTargets,
         version \in {<<" ", "H", "T", "T", "P", "/", "1", ".", "1">>, <<>>},
         headerBlock \in GetHeaderBlocks}

\* process.uptime() in hundredths of a second; it never runs backwards.
Hundredths(uptime) == NumberOf(SelectSeq(uptime, LAMBDA ch : ch # "."))

NoneReturned == [done |-> FALSE, value |-> <<>>]

InitGetTwice ==
    /\ Accepted(<<>>)
    /\ call \in [op : {"handleGET"}, request : GetRequests]
    /\ result = NoneReturned

\* this.handleGET(request): the handler reads the request, the port and the
\* clock, and assigns to nothing but its own locals.
CallHandleGET ==
    /\ call.op = "handleGET"
    /\ ~result.done
    /\ \E env \in Clock :
           /\ \A i \in DOMAIN result.value :
                  Hundredths(result.value[i].env.uptime) <= Hundredths(env.uptime)
           /\ result' = [done |-> Len(result.value) = 1,
                         value |-> Append(result.value,
                                          [env |-> env,
                                           returned |-> handleGET(call.request, env)])]
    /\ UNCHANGED <<call, stream, received, data, calls, sent, sock, log>>

NextGetTwice == CallHandleGET

SpecGetTwice == InitGetTwice /\ [][NextGetTwice]_vars

\* A text with the value that follows a label, up to an end mark, left out.
WithoutValue(text, label, end) ==
    IF ~Includes(text, label) THEN text
    ELSE BeforeFirst(text, label) \o label \o end
         \o AfterFirst(AfterFirst(text, label), end)

TimestampLabel == <<"                    Timestamp: ">>
UptimeLabel == <<"                    Uptime: ">>

WithoutTimestamp(text) == WithoutValue(text, TimestampLabel, <<"\n">>)
WithoutUptime(text) == WithoutValue(text, UptimeLabel, <<" seconds\n">>)

IsContentLengthLine(line) ==
    /\ Len(line) > Len(ContentLength)
    /\ SubSeq(line, 1, Len(ContentLength) + 1) = ContentLength \o <<": ">>

OtherHeaderLines(response) ==
    SelectSeq(HeaderLinesOf(response), LAMBDA line : ~IsContentLengthLine(line))

\* Two results of the handler that differ in the timestamp value at most.
SameApartFromTimestamp(first, second) ==
    /\ first.raised = second.raised
    /\ WithoutTimestamp(first.response) = WithoutTimestamp(second.response)

\* Two results of the handler that differ at most in the values the status
\* route takes from the clock, and in the length header that follows them.
SameApartFromClock(first, second, statusRoute) ==
    /\ first.raised = second.raised
    /\ IF first.raised \/ ~statusRoute
       THEN first.response = second.response
       ELSE /\ StatusLineOf(first.response) = StatusLineOf(second.response)
            /\ OtherHeaderLines(first.response) = OtherHeaderLines(second.response)
            /\ WithoutUptime(WithoutTimestamp(BodyOf(first.response)))
                   = WithoutUptime(WithoutTimestamp(BodyOf(second.response)))

IsStatusRoute(request) ==
    /\ request.path # Undefined
    /\ BeforeFirst(request.path, <<"?">>) = ApiStatus

\* C18 as stated. Two calls of the GET handling with the identical parsed
\* request give the identical status, headers and body, apart from the
\* timestamp value of a route that embeds one.
C18_GetTwiceSameApartFromTimestamp ==
    result.done /\ call.op = "handleGET" =>
        SameApartFromTimestamp(result.value[1].returned, result.value[2].returned)

\* C18. Two calls of the GET handling with the identical parsed request both
\* raise or both return; off the status route the two responses are
\* identical; on GET /api/status they have the same status line and the same
\* headers apart from Content-Length, and bodies that differ in the values of
\* the Timestamp and Uptime lines only. No call changes the request or the
\* state of the server.
C18_GetTwiceSameApartFromClock ==
    /\ [](result.done /\ call.op = "handleGET" =>
            SameApartFromClock(result.value[1].returned,
                               result.value[2].returned,
                               IsStatusRoute(call.request)))
    /\ [][call.op = "handleGET" =>
            /\ call' = call
            /\ UNCHANGED <<stream, received, data, calls, sent, sock, log>>]_vars

\* The status route was asked twice at different times and gave two
\* different responses.
C18_StatusAskedAtTwoTimes ==
    /\ result.done
    /\ call.op = "handleGET"
    /\ IsStatusRoute(call.request)
    /\ result.value[1].env # result.value[2].env
    /\ ~result.value[1].returned.raised
    /\ result.value[1].returned.response # result.value[2].returned.response

\* ---------------------------------------------------------------------------
\* Two connections at once (SpecTwo)
\* ---------------------------------------------------------------------------

GetStatusShort ==
    <<"G", "E", "T", " ", "/", "a", "p", "i", "/", "s", "t", "a", "t", "u",
      "s", CR, LF, CR, LF>>
PutThenMore == <<"P", "U", "T", CR, LF, CR, LF, "a", "b">>
PostNope ==
    <<"P", "O", "S", "T", " ", "/", "n", CR, LF, CR, LF, "{">>

FirstStreams == {GetStatusShort}
SecondStreams == {PutThenMore, PostNope}

\* Two clients are connected; the data events of the two arrive in any
\* order and cut the bytes of each anywhere.
InitTwo ==
    /\ \E first \in FirstStreams : \E second \in SecondStreams :
           Accepted([c \in Conns |-> IF c = "c1" THEN first ELSE second])
    /\ call = NoCall
    /\ result = NotReturned

SpecTwo == InitTwo /\ [][Next]_vars

OwnStreams(c) == IF c = "c1" THEN FirstStreams ELSE SecondStreams

\* The buffer of a connection holds the bytes received on it, in the order
\* of arrival, and nothing else.
OwnBytesOnly(c) ==
    /\ received[c] \o stream[c] \in OwnStreams(c)
    /\ data[c] = Utf8Decode(received[c])

\* Two outcomes of the data handler with the same raise, status code and
\* content apart from the values taken from the clock.
SameOutcome(entry, other) ==
    /\ entry.handler = other.handler
    /\ entry.raised = other.raised
    /\ Len(entry.calls) = Len(other.calls)
    /\ StatusCodeOf(entry.calls[1].response) = StatusCodeOf(other.calls[1].response)
    /\ WithoutUptime(WithoutTimestamp(BodyOf(entry.calls[1].response)))
           = WithoutUptime(WithoutTimestamp(BodyOf(other.calls[1].response)))

\* The outcomes the data handler has for a chunk and a buffer, one for each
\* reading of the clock.
OutcomesOf(entry) ==
    {run(entry.chunk, entry.buffer, env) : env \in Clock}

FollowsFrom(entry, outcomes) ==
    /\ entry \in outcomes
    /\ \A other \in outcomes : SameOutcome(entry, other)

\* Every buffer the data handler ran on is a beginning of the text received
\* on the connection.
OwnBuffers(c) ==
    \A i \in DOMAIN log[c] :
        /\ Len(log[c][i].buffer) <= Len(data[c])
        /\ log[c][i].buffer = SubSeq(data[c], 1, Len(log[c][i].buffer))

\* What a step does for a connection follows from the bytes of that
\* connection.
OwnOutcome(c) ==
    Len(log'[c]) > Len(log[c]) =>
        /\ log'[c][Len(log'[c])].buffer = data'[c]
        /\ FollowsFrom(log'[c][Len(log'[c])], OutcomesOf(log'[c][Len(log'[c])]))

\* A step leaves everything of the connection d as it was.
Untouched(d) ==
    /\ stream'[d] = stream[d]
    /\ received'[d] = received[d]
    /\ data'[d] = data[d]
    /\ calls'[d] = calls[d]
    /\ sent'[d] = sent[d]
    /\ sock'[d] = sock[d]
    /\ log'[d] = log[d]

\* C19. With two connections whose data events interleave in any order, the
\* buffer of each holds exactly the chunks delivered on it, in arrival order;
\* the status code and the time-independent content of what is written to a
\* connection follow from its own chunks alone; and a step taken for one
\* connection changes nothing of the other.
C19_ConnectionsIsolated ==
    /\ [](\A c \in Conns : OwnBytesOnly(c) /\ OwnBuffers(c))
    /\ [][/\ \E c \in Conns : \A d \in Conns \ {c} : Untouched(d)
          /\ \A c \in Conns : OwnOutcome(c)]_vars

\* Both connections were answered, each after its bytes had come in more
\* than one chunk, and with different status codes.
C19_BothAnsweredInPieces ==
    /\ \A c \in Conns :
           /\ Len(log[c]) >= 1
           /\ Len(log[c][1].chunk) < Len(log[c][1].buffer)
           /\ Len(sent[c]) = 1
    /\ StatusCodeOf(sent["c1"][1]) # StatusCodeOf(sent["c2"][1])

\* ---------------------------------------------------------------------------
\* The buffer after a request was parsed (Spec)
\* ---------------------------------------------------------------------------

\* A text begins with another.
StartsWith(text, start) ==
    /\ Len(start) <= Len(text)
    /\ SubSeq(text, 1, Len(start)) = start

\* C20. Once a full request has been parsed on a connection, the buffer of
\* the connection is cleared or discarded: from then on it no longer holds
\* the text of the parsed request, and no later data event finds that text in
\* the buffer.
C20_BufferClearedOnceParsed ==
    \A c \in Conns :
        /\ log[c] # <<>> => ~StartsWith(data[c], log[c][1].buffer)
        /\ \A i \in DOMAIN log[c] :
               i > 1 => ~StartsWith(log[c][i].buffer, log[c][i - 1].buffer)

\* ---------------------------------------------------------------------------
\* Connections that never send the empty line, and the order of steps (Spec)
\* ---------------------------------------------------------------------------

\* The bytes the last data event brought to a connection.
LastChunk(c) == SubSeq(received'[c], Len(received[c]) + 1, Len(received'[c]))

\* The connection still waits for the end of the headers: nothing was
\* parsed, nothing was written, the server has not ended the socket.
AwaitingHeaders(c) ==
    /\ log[c] = <<>>
    /\ calls[c] = <<>>
    /\ sent[c] = <<>>
    /\ sock[c] # "ended"

\* C21. A connection whose received bytes do not contain CRLFCRLF waits for
\* the headers for as long as that is so: each chunk that arrives is appended
\* to the buffer, nothing is parsed or written and the server does not end
\* the connection, however many chunks arrive and however long the buffer
\* grows.
C21_StallsWithoutDelimiter ==
    /\ [](\A c \in Conns :
              ~Includes(received[c], CRLFCRLF) => AwaitingHeaders(c))
    /\ [][\A c \in Conns :
              (received'[c] # received[c] /\ ~Includes(received'[c], CRLFCRLF))
              => /\ data'[c] = data[c] \o Utf8Decode(LastChunk(c))
                 /\ sock'[c] = sock[c]]_vars

\* The whole of a stream without the empty line has arrived and the
\* connection is still open and unanswered.
C21_AllReceivedStillWaiting ==
    \E c \in Conns :
        /\ stream[c] = <<>>
        /\ received[c] = NoDelimiter
        /\ data[c] = NoDelimiter
        /\ sock[c] = "open"
        /\ AwaitingHeaders(c)

\* The calls of every run of the data handler come in the order write, end,
\* and none is made before a request was parsed.
WriteThenEnd(c) ==
    /\ Len(calls[c]) = 2 * Len(log[c])
    /\ \A i \in DOMAIN log[c] :
           /\ calls[c][2 * i - 1].op = "write"
           /\ calls[c][2 * i].op = "end"

\* A step parses on a connection only while it waits for the headers, and
\* a connection the server has ended stays ended or becomes closed.
OnlyForward(c) ==
    /\ Len(log'[c]) > Len(log[c]) => AwaitingHeaders(c)
    /\ sock[c] = "ended" => sock'[c] \in {"ended", "closed"}
    /\ sock[c] = "closed" => sock'[c] = "closed"

\* C22. Within one connection the steps occur strictly in the order
\* accumulate, parse, route, write, end: the connection only moves forward
\* from awaiting the headers to parsed, responded and closed, so nothing is
\* parsed on a connection that was already answered; no write precedes the
\* parse of the request and no end precedes the write.
C22_StepsInOrderOnlyForward ==
    /\ [](\A c \in Conns : WriteThenEnd(c))
    /\ [][\A c \in Conns : OnlyForward(c)]_vars

\* ---------------------------------------------------------------------------
\* Header lines of a request (SpecHeaderLines)
\* ---------------------------------------------------------------------------

\* Header lines: a value with a colon, capitals and no space, no colon, an
\* empty name, a name with a space before the colon and blanks around the
\* value, the name __proto__, a value that is a colon, an empty value.
HeaderLineTexts ==
    {<<"H", "o", "s", "t", ":", " ", "l", "o", "c", "a", "l", "h", "o", "s", "t", ":", "4", "0", "0", "0">>,
     <<"H", "O", "S", "T", ":", "a">>,
     <<"n", "o", "c", "o", "l", "o", "n">>,
     <<":", "x">>,
     <<"H", "o", "s", "t", " ", ":", " ", " ", "b", " ", "\t">>,
     <<"_", "_", "p", "r", "o", "t", "o", "_", "_", ":", " ", "p">>,
     <<"a", ":", ":">>,
     <<"h", "o", "s", "t", ":">>}

HeaderLineLists ==
    UNION {[1..n -> HeaderLineTexts] : n \in 0..MaxHeaderLines}

RECURSIVE LinesText(_)
LinesText(lines) ==
    IF Len(lines) = 0 THEN <<>>
    ELSE lines[1] \o CRLF \o LinesText(Tail(lines))

\* A request with the header lines, the empty line and a body.
HeaderLinesRequest(lines, body) ==
    <<"G", "E", "T", " ", "/", " ", "H", "T", "T", "P", "/", "1", ".", "1">>
    \o CRLF \o LinesText(lines) \o CRLF \o body

InitHeaderLines ==
    /\ Accepted(<<>>)
    /\ call \in {[op |-> "parseText", text |-> HeaderLinesRequest(lines, body)] :
                    lines \in HeaderLineLists,
                    body \in {<<>>, <<"B", ":", " ", "c">>}}
    /\ result = NotReturned

SpecHeaderLines == InitHeaderLines /\ [][NextParseText]_vars

HasColon(line) == Includes(line, <<":">>)
NameOf(line) == ToLowerCase(BeforeFirst(line, <<":">>))
ValueOf(line) == Trim(AfterFirst(line, <<":">>))

\* The lines between the request line and the first empty line.
HeaderLineIndexes(lines) ==
    IF EmptyLines(lines) = {} THEN 2..Len(lines)
    ELSE 2..(FirstEmptyLine(lines) - 1)

\* The header lines with a colon whose name is a given one.
LinesNamed(lines, name) ==
    {i \in HeaderLineIndexes(lines) :
        HasColon(lines[i]) /\ NameOf(lines[i]) = name}

LastLineNamed(lines, name) ==
    CHOOSE i \in LinesNamed(lines, name) :
        \A j \in LinesNamed(lines, name) : j <= i

\* Every entry of the map comes from a header line cut at its first colon,
\* and every header line with a colon, the names left out apart, is in the
\* map under its name with the value of the last line of that name.
EntriesFollowLines(lines, headers, leftOut) ==
    /\ \A k \in DOMAIN headers :
           /\ LinesNamed(lines, headers[k].key) # {}
           /\ headers[k].value
                  = ValueOf(lines[LastLineNamed(lines, headers[k].key)])
    /\ \A i \in HeaderLineIndexes(lines) :
           (HasColon(lines[i]) /\ NameOf(lines[i]) \notin leftOut)
           => /\ HasKey(headers, NameOf(lines[i]))
              /\ LastLineNamed(lines, NameOf(lines[i])) = i
                     => Get(headers, NameOf(lines[i])) = ValueOf(lines[i])

\* C23 as stated. Every header line before the first empty line is cut at
\* its first colon into a lower-cased name and a trimmed value, which the
\* headers map then holds; a line without a colon adds nothing.
C23_EveryColonLineGivesEntry ==
    result.done /\ call.op = "parseText" =>
        EntriesFollowLines(LinesOf(call.text), result.value.headers, {})

\* Apart from the name __proto__, for which the assignment makes no entry,
\* every header line with a colon is in the map: cut at its first colon only,
\* the name lower-cased, the value without leading and trailing whitespace.
ColonLineGivesEntryUnlessProto ==
    result.done /\ call.op = "parseText" =>
        /\ EntriesFollowLines(LinesOf(call.text), result.value.headers, {ProtoKey})
        /\ ~HasKey(result.value.headers, ProtoKey)

\* The names that two or more header lines of a request have.
RepeatedNames(lines) ==
    {NameOf(lines[i]) : i \in {k \in HeaderLineIndexes(lines) :
        HasColon(lines[k]) /\ Cardinality(LinesNamed(lines, NameOf(lines[k]))) >= 2}}

\* The map has one key for a name, with the value of the last line of it.
LastLineWins(lines, headers, name) ==
    /\ Cardinality({k \in DOMAIN headers : headers[k].key = name}) = 1
    /\ Get(headers, name) = ValueOf(lines[LastLineNamed(lines, name)])

\* C24. When two or more header lines of a request have names that are
\* equal after lower-casing, the headers map holds a single key for them and
\* its value is the trimmed value of the last such line.
C24_LastOfRepeatedNameWins ==
    result.done /\ call.op = "parseText" =>
        \A name \in RepeatedNames(LinesOf(call.text)) :
            LastLineWins(LinesOf(call.text), result.value.headers, name)

\* Apart from the name __proto__, a name that several header lines have is
\* one key of the map, with the value of the last of the lines.
LastOfRepeatedNameWinsUnlessProto ==
    result.done /\ call.op = "parseText" =>
        \A name \in RepeatedNames(LinesOf(call.text)) \ {ProtoKey} :
            LastLineWins(LinesOf(call.text), result.value.headers, name)

\* ---------------------------------------------------------------------------
\* createResponse called with a body of any kind (SpecResponseBody)
\* ---------------------------------------------------------------------------

\* The body argument left out.
NoArgument == JValue("undefined", <<>>, <<>>)

\* this.createResponse(statusCode, headers, body) for a body of any kind:
\* the default '' of the parameter stands in for a body that is left out and
\* for nothing else, and Buffer.byteLength raises a TypeError for an argument
\* that is neither a string nor a buffer.
createResponseOf(statusCode, headers, body) ==
    CASE body.type = "undefined" ->
             Returned(createResponse(statusCode, headers, <<>>))
      [] body.type = "string" ->
             Returned(createResponse(statusCode, headers, body.text))
      [] OTHER -> Raised

BodyArguments ==
    {NoArgument, JNull, JTrue, JValue("number", <<"4", "2">>, <<>>),
     JValue("number", <<"0">>, <<>>), JString(<<>>), JString(Hello)}

InitResponseBody ==
    /\ Accepted(<<>>)
    /\ call \in [op : {"createResponseOf"},
                 statusCode : {200, 201, 400, 404, 405, 500},
                 headers : {<<>>, TextPlainHeader,
                            <<[key |-> ContentLength, value |-> <<"v">>]>>},
                 body : BodyArguments]
    /\ result = NotReturned

CallCreateResponseOf ==
    /\ call.op = "createResponseOf"
    /\ ~result.done
    /\ result' = [done |-> TRUE,
                  value |-> createResponseOf(call.statusCode,
                                             Spread(<<>>, call.headers),
                                             call.body)]
    /\ UNCHANGED <<call, stream, received, data, calls, sent, sock, log>>

NextResponseBody == CallCreateResponseOf

SpecResponseBody == InitResponseBody /\ [][NextResponseBody]_vars

\* C25. createResponse has no error outcome: for every status code, header
\* map and body argument it returns a response, and when the body argument
\* is left out or is no string (null, a number) the response has an empty
\* body and, unless the caller's headers replace it, Content-Length 0.
C25_ReturnsForEveryBody ==
    result.done /\ call.op = "createResponseOf" =>
        /\ ~result.value.raised
        /\ call.body.type # "string" =>
               /\ BodyOf(result.value.response) = <<>>
               /\ HasKey(call.headers, ContentLength)
                  \/ Get(EmittedHeaders(result.value.response), ContentLength)
                         = <<"0">>

\* ---------------------------------------------------------------------------
\* Further properties of whole requests (SpecRequests)
\* ---------------------------------------------------------------------------

\* The status that the text of a POST response body declares.
StatusDeclared(body) ==
    IF Includes(body, <<"                    Status: 200 OK\n">>) THEN 200
    ELSE IF \/ Includes(body, <<"                    - Status: 201 Created\n">>)
            \/ Includes(body, <<"                    Status: 201 Created\n">>)
    THEN 201
    ELSE 0

\* C26. For every successful POST response the status code of the status
\* line is the status that the body of the response declares for the route:
\* 201 on /api/users and /api/data ("Status: 201 Created"), 200 on /api/echo
\* ("Status: 200 OK").
C26_StatusLineAsBodyDeclares ==
    \A c \in Conns : \A i \in DOMAIN log[c] :
        (/\ log[c][i].handler = "handlePOST"
         /\ ~log[c][i].raised
         /\ StatusCodeOf(log[c][i].calls[1].response) \in {200, 201})
        => /\ StatusCodeOf(log[c][i].calls[1].response)
                  = StatusDeclared(BodyOf(log[c][i].calls[1].response))
           /\ log[c][i].request.path = ApiEcho
                  => StatusCodeOf(log[c][i].calls[1].response) = 200
           /\ log[c][i].request.path \in {ApiUsers, ApiData}
                  => StatusCodeOf(log[c][i].calls[1].response) = 201

\* ---------------------------------------------------------------------------
\* The first request of a stream cut into chunks (Spec)
\* ---------------------------------------------------------------------------

\* Two parsed requests with the same request line and headers.
SameHead(first, whole) ==
    /\ first.method = whole.method
    /\ first.path = whole.path
    /\ first.version = whole.version
    /\ first.headers = whole.headers

\* The first request parsed on a connection, against the bytes that had
\* arrived (got) and the bytes of the whole stream (all).
FirstParsedAsUnsplit(first, got, all) ==
    /\ SameHead(first, parseRequest(Utf8Decode(all)))
    /\ first.body = Utf8Decode(AfterFirst(got, CRLFCRLF))
    /\ StartsWith(AfterFirst(all, CRLFCRLF), AfterFirst(got, CRLFCRLF))

\* C27. Whether to parse depends on the presence of CRLFCRLF alone, never
\* on Content-Length: however a byte stream is cut into chunks, the method,
\* path, version and headers of the first request parsed are those of the
\* stream taken whole, and its body is the beginning of the bytes after the
\* first CRLFCRLF: the part of them that had arrived with the chunk that
\* completed the delimiter.
C27_FirstParseIndependentOfChunks ==
    [][\A c \in Conns :
          (log[c] = <<>> /\ log'[c] # <<>>)
          => /\ Includes(received'[c], CRLFCRLF)
             /\ ~Includes(received[c], CRLFCRLF)
             /\ FirstParsedAsUnsplit(log'[c][1].request, received'[c],
                                     received'[c] \o stream'[c])]_vars

\* The same for the streams of bytes below 128 only, in which no chunk ends
\* inside a character.
IsAscii(bytes) == \A i \in DOMAIN bytes : Utf8Decode(<<bytes[i]>>) = <<bytes[i]>>

FirstParseIndependentOfChunksAscii ==
    [][\A c \in Conns :
          (log[c] = <<>> /\ log'[c] # <<>> /\ IsAscii(received'[c] \o stream'[c]))
          => /\ Includes(received'[c], CRLFCRLF)
             /\ ~Includes(received[c], CRLFCRLF)
             /\ FirstParsedAsUnsplit(log'[c][1].request, received'[c],
                                     received'[c] \o stream'[c])]_vars

HexChars ==
    {HexDigits[i] : i \in DOMAIN HexDigits} \cup {"a", "b", "c", "d", "e", "f"}

\* A text has a "%" that two hexadecimal digits do not follow.
BadEscape(text) ==
    \E i \in DOMAIN text :
        /\ text[i] = "%"
        /\ ~(/\ i + 2 <= Len(text)
             /\ text[i + 1] \in HexChars
             /\ text[i + 2] \in HexChars)

\* The parts of a query string or of a form body that are decoded: the key
\* of every parameter that has one, and its value up to a second "=".
PartsDecoded(params) ==
    UNION {{BeforeFirst(pair, <<"=">>),
            BeforeFirst(AfterFirst(pair, <<"=">>), <<"=">>)} :
              pair \in {p \in {params[i] : i \in DOMAIN params} :
                           BeforeFirst(p, <<"=">>) # <<>>}}

\* The parameters of the query string of a path: the text between the first
\* and a second "?", cut at every "&".
QueryOf(path) ==
    Split(BeforeFirst(AfterFirst(path, <<"?">>), <<"?">>), <<"&">>)

IsFormPost(request) ==
    /\ request.method = POST
    /\ DeclaresKind(request, FormUrlEncoded)
    /\ ~DeclaresKind(request, ApplicationJson)

IsQueryGet(request) == request.method = GET /\ request.path # Undefined

\* The connection handler answered for a handler that raised.
AnsweredInvalidFormat(entry) ==
    /\ entry.raised
    /\ StatusCodeOf(entry.calls[1].response) = 400
    /\ BodyOf(entry.calls[1].response) = InvalidHttpFormat

\* The POST handler answered for a body it could not parse.
AnsweredInvalidBody(entry) ==
    /\ ~entry.raised
    /\ entry.handler = "handlePOST"
    /\ StatusCodeOf(entry.calls[1].response) = 400
    /\ BodyOf(entry.calls[1].response) = BadBodyFormat

\* C28 as stated. A malformed percent-escape always produces a 400 and never
\* a route response: anywhere in a GET query string it is answered 400 "Bad
\* Request - Invalid HTTP format" whatever the route, anywhere in a POST
\* form body 400 "Bad Request - Invalid request body format".
C28_BadEscapeAlways400 ==
    \A c \in Conns : \A i \in DOMAIN log[c] :
        /\ (IsQueryGet(log[c][i].request)
            /\ BadEscape(AfterFirst(log[c][i].request.path, <<"?">>)))
           => AnsweredInvalidFormat(log[c][i])
        /\ (IsFormPost(log[c][i].request) /\ BadEscape(log[c][i].request.body))
           => AnsweredInvalidBody(log[c][i])

\* C28. A malformed percent-escape in a part that is decoded (the key of a
\* parameter that has a key, or its value up to a second "=", within the
\* query up to a second "?") produces a 400 and no route response: in a GET
\* query "Bad Request - Invalid HTTP format" from the connection handler,
\* whether the route is known or not; in a POST form body "Bad Request -
\* Invalid request body format" from the POST handler, whatever the path. A
\* malformed escape anywhere else (after an empty key, after a second "=" or
\* "?") is not decoded and the route answers.
C28_BadEscapeInDecodedPart400 ==
    \A c \in Conns : \A i \in DOMAIN log[c] :
        /\ IsQueryGet(log[c][i].request) =>
               IF \E part \in PartsDecoded(QueryOf(log[c][i].request.path)) :
                      BadEscape(part)
               THEN AnsweredInvalidFormat(log[c][i])
               ELSE /\ ~log[c][i].raised
                    /\ StatusCodeOf(log[c][i].calls[1].response) \in {200, 404}
        /\ IsFormPost(log[c][i].request) =>
               IF \E part \in PartsDecoded(Split(log[c][i].request.body, <<"&">>)) :
                      BadEscape(part)
               THEN AnsweredInvalidBody(log[c][i])
               ELSE /\ ~log[c][i].raised
                    /\ StatusCodeOf(log[c][i].calls[1].response) \in {201, 404}

\* A malformed escape in the query of a path that is no route was answered
\* 400 by the connection handler.
C28_BadEscapeOnUnknownRoute ==
    \E c \in Conns :
        /\ Len(log[c]) = 1
        /\ log[c][1].request.method = GET
        /\ log[c][1].request.path
               = <<"/", "m", "i", "s", "s", "i", "n", "g", "?", "a", "=", "%",
                   "z", "z">>
        /\ AnsweredInvalidFormat(log[c][1])
        /\ Len(sent[c]) = 1

\* A response was written for the run and the connection ended after it.
WrittenAndEnded(entry) ==
    /\ Len(entry.calls) = 2
    /\ entry.calls[1].op = "write"
    /\ HasResponseParts(entry.calls[1].response)
    /\ entry.calls[2].op = "end"

\* The answer to a request line that ends after the method.
NoPathAnswered(entry) ==
    CASE entry.request.method = GET ->
             /\ entry.handler = "handleGET"
             /\ AnsweredInvalidFormat(entry)
      [] entry.request.method = POST ->
             (/\ ~DeclaresKind(entry.request, ApplicationJson)
              /\ ~DeclaresKind(entry.request, FormUrlEncoded))
             => /\ entry.handler = "handlePOST"
                /\ ~entry.raised
                /\ StatusCodeOf(entry.calls[1].response) = 404
                /\ ListsPostRoutes(BodyOf(entry.calls[1].response))
      [] OTHER ->
             /\ entry.handler = "none"
             /\ ~entry.raised
             /\ StatusCodeOf(entry.calls[1].response) = 405

\* C29. A request line with a method and no path is answered according to
\* the method: GET makes the GET handler raise on the undefined path and the
\* connection handler answers 400 "Bad Request - Invalid HTTP format"; POST
\* without a JSON or form content type is answered 404 by the POST handler;
\* any other method is answered 405. Every such request gets a response.
C29_NoPathAnsweredByMethod ==
    \A c \in Conns : \A i \in DOMAIN log[c] :
        log[c][i].request.path = Undefined =>
            /\ NoPathAnswered(log[c][i])
            /\ WrittenAndEnded(log[c][i])
            /\ i = 1 => sent[c] # <<>> /\ sent[c][1] = log[c][i].calls[1].response

\* POST alone on the request line, with a plain text body, was answered 404.
C29_PostWithoutPathNotFound ==
    \E c \in Conns :
        /\ Len(log[c]) = 1
        /\ log[c][1].request.method = POST
        /\ log[c][1].request.path = Undefined
        /\ log[c][1].request.body = <<"{", "b", "a", "d">>
        /\ ~HasKey(log[c][1].request.headers, ContentTypeKey)
        /\ Len(sent[c]) = 1
        /\ StatusCodeOf(sent[c][1]) = 404

\* C30. POST route selection compares the whole request path, a query
\* suffix included, with the known routes, while GET route selection
\* compares the part before the first "?" only: a POST whose body parses is
\* answered with success exactly when its whole path is a POST route, so
\* /api/users?x=1 is answered 404; a GET that does not raise is answered 200
\* exactly when the part of its path before the first "?" is a GET route, so
\* /api/status?x=1 is answered 200.
C30_PostByWholePathGetByPartBeforeQuery ==
    \A c \in Conns : \A i \in DOMAIN log[c] :
        /\ (log[c][i].handler = "handlePOST" /\ ~log[c][i].raised
            /\ StatusCodeOf(log[c][i].calls[1].response) # 400)
           => IF log[c][i].request.path \in PostRoutes
              THEN StatusCodeOf(log[c][i].calls[1].response) = 201
              ELSE /\ StatusCodeOf(log[c][i].calls[1].response) = 404
                   /\ ListsPostRoutes(BodyOf(log[c][i].calls[1].response))
        /\ (log[c][i].handler = "handleGET" /\ ~log[c][i].raised)
           => IF BeforeFirst(log[c][i].request.path, <<"?">>) \in GetRoutes
              THEN StatusCodeOf(log[c][i].calls[1].response) = 200
              ELSE /\ StatusCodeOf(log[c][i].calls[1].response) = 404
                   /\ ListsGetRoutes(BodyOf(log[c][i].calls[1].response))

\* A POST to /api/users?x=1 with a JSON body that parses was answered 404.
C30_PostWithQueryNotFound ==
    \E c \in Conns :
        /\ Len(log[c]) = 1
        /\ log[c][1].request.method = POST
        /\ log[c][1].request.path = ApiUsers \o <<"?", "x", "=", "1">>
        /\ DeclaresKind(log[c][1].request, ApplicationJson)
        /\ parsedBodyOf(log[c][1].request).ok
        /\ Len(sent[c]) = 1
        /\ StatusCodeOf(sent[c][1]) = 404

====
